---------------------------- MODULE Spec2Model ----------------------------
(***************************************************************************)
(* Live-Outage-Dashboard: the worker routes (vendor status poll, ServiceNow *)
(* config store, outage feeds) and the dashboard panels (scheduled changes, *)
(* outage trends) as state machines.                                        *)
(*                                                                          *)
(* Strings are sequences of one-character strings, so that trimming,        *)
(* lower-casing, concatenation and comparison are computed, not assumed.    *)
(* JSON values are records [t, s, n, b, o]: t the type tag, s the string,   *)
(* n the number, b the boolean, o the object's <<key, value>> pairs in      *)
(* insertion order.                                                         *)
(***************************************************************************)
EXTENDS Integers, Sequences, FiniteSets, TLC

VARIABLES
    \* ---- GET /api/vendors/status ----
    vendors,      \* the list VendorEntity.list returned to the handler
    vpc,          \* the handler: "idle" | "polling" | "responded"
    probes,       \* per vendor: the promise of its async probe
    httpLog,      \* the HTTP GETs issued, in order: indexes into vendors
    settleOrder,  \* the order in which the probes settled: indexes into vendors
    vresponse,    \* what the handler answered
    \* ---- OutageTrendsPanel ----
    serverHistory,  \* the outages /api/outages/history answers with
    history,        \* useState history: the outages of the last fetch
    breakdownType,  \* useState breakdownType: "impact" | "system"
    tnow,           \* the clock the last computation of chartData read
    chart,          \* useMemo: [dayKeys, chartData, keys]
    \* ---- ServiceNow config store ----
    stored,       \* the singleton record of the store ("absent" before a save)
    lastRead,     \* what the last GET /api/servicenow/config returned
    saves,        \* number of saves so far
    saved,        \* the bodies the saves so far carried
    \* ---- ScheduledChangesPanel ----
    changesBody,  \* the body /api/changes/today answers with
    outagesBody,  \* the body /api/outages/active answers with
    pnow,         \* the clock the today-window filter reads
    mounted,      \* the component has been committed and its effects have run
    refreshTick,  \* prop refreshTick: the number of refreshes asked for
    items,        \* useState items
    loading,      \* useState loading
    errorMsg,     \* useState errorMsg ("null" for null)
    cycles,       \* the poll cycles started so far, oldest first
    job,          \* the aborted cycle whose catch/finally is queued, or 0
    appliedBy,    \* the cycle that made the last write to the panel state
    \* ---- the ServiceNow and SolarWinds feeds ----
    fconfig,      \* what ServiceNowConfigEntity.getState returns to the handlers
    ffieldMapping, \* the fieldMapping of that config
    swconfig,     \* what SolarWindsConfigEntity.getState returns
    fenv,         \* whether the Worker secrets of each integration are set
    fnow,         \* the clock the handler reads
    fquery,       \* the query of the last request sent upstream
    upstream,     \* what the upstream answered to the last request
    answer,       \* what the last handler answered
    \* ---- useAutoRefresh ----
    hstage,       \* the component using the hook: "unmounted" | "mounted" | "gone"
    henabled,     \* the enabled option of the last render
    intervalMinutes, \* the intervalMinutes option of the last render
    onRefresh,    \* the onRefresh option of the last render
    intervalRef,  \* intervalRef.current: a timer id, or NoTimer for null
    callbackRef,  \* callbackRef.current
    timers,       \* the interval timers of the window that are active
    nextTimer,    \* the id setInterval returns next
    lastTick,     \* what the last timer tick did
    \* ---- OutageTrendsPanel and MonitoringAlertsPanel: the fetch ----
    refreshCounter, \* the refreshCounter of the dashboard store
    shown,        \* per panel: whether it is mounted
    fdata,        \* per panel: the history / alerts state
    isLoading,    \* per panel: the isLoading state
    error,        \* per panel: the error state, "null" for null
    pending       \* per panel: the calls of its fetch that await the api

vendorVars == <<vendors, vpc, probes, httpLog, settleOrder, vresponse>>
configVars == <<stored, lastRead, saves, saved>>
trendVars == <<serverHistory, history, breakdownType, tnow, chart>>
panelVars == <<changesBody, outagesBody, pnow, mounted, refreshTick, items, loading,
               errorMsg, cycles, job, appliedBy>>
feedVars == <<fconfig, ffieldMapping, swconfig, fenv, fnow, fquery, upstream, answer>>
refreshVars == <<hstage, henabled, intervalMinutes, onRefresh, intervalRef, callbackRef,
                 timers, nextTimer, lastTick>>
fetchVars == <<refreshCounter, shown, fdata, isLoading, error, pending>>
vars == <<vendorVars, configVars, trendVars, panelVars, feedVars, refreshVars, fetchVars>>

\* What each component's actions leave alone.
vendorOthers == <<configVars, trendVars, panelVars, feedVars, refreshVars, fetchVars>>
configOthers == <<vendorVars, trendVars, panelVars, feedVars, refreshVars, fetchVars>>
trendOthers == <<vendorVars, configVars, panelVars, feedVars, refreshVars, fetchVars>>
panelOthers == <<vendorVars, configVars, trendVars, feedVars, refreshVars, fetchVars>>
feedOthers == <<vendorVars, configVars, trendVars, panelVars, refreshVars, fetchVars>>
refreshOthers == <<vendorVars, configVars, trendVars, panelVars, feedVars, fetchVars>>
fetchOthers == <<vendorVars, configVars, trendVars, panelVars, feedVars, refreshVars>>

-----------------------------------------------------------------------------
(* Strings *)

IsWhite(c) == c \in {" ", "\t", "\n"}

Lower(c) ==
    CASE c = "A" -> "a" [] c = "B" -> "b" [] c = "C" -> "c" [] c = "D" -> "d"
      [] c = "E" -> "e" [] c = "F" -> "f" [] c = "G" -> "g" [] c = "H" -> "h"
      [] c = "I" -> "i" [] c = "J" -> "j" [] c = "K" -> "k" [] c = "L" -> "l"
      [] c = "M" -> "m" [] c = "N" -> "n" [] c = "O" -> "o" [] c = "P" -> "p"
      [] c = "Q" -> "q" [] c = "R" -> "r" [] c = "S" -> "s" [] c = "T" -> "t"
      [] c = "U" -> "u" [] c = "V" -> "v" [] c = "W" -> "w" [] c = "X" -> "x"
      [] c = "Y" -> "y" [] c = "Z" -> "z"
      [] OTHER -> c

toLowerCase(s) == [i \in 1..Len(s) |-> Lower(s[i])]

RECURSIVE trimStart(_)
trimStart(s) ==
    IF s # <<>> /\ IsWhite(Head(s)) THEN trimStart(Tail(s)) ELSE s

RECURSIVE trimEnd(_)
trimEnd(s) ==
    IF s # <<>> /\ IsWhite(s[Len(s)]) THEN trimEnd(SubSeq(s, 1, Len(s) - 1)) ELSE s

trim(s) == trimEnd(trimStart(s))

\* UTF-16 code units of the characters the model uses, for string comparison.
Code(c) ==
    CASE c = "\t" -> 9 [] c = "\n" -> 10 [] c = " " -> 32 [] c = "\"" -> 34
      [] c = "0" -> 48 [] c = "1" -> 49 [] c = "2" -> 50 [] c = "3" -> 51
      [] c = "4" -> 52 [] c = "5" -> 53 [] c = "6" -> 54 [] c = "7" -> 55
      [] c = "8" -> 56 [] c = "9" -> 57
      [] c = ":" -> 58
      [] c = "A" -> 65 [] c = "B" -> 66 [] c = "C" -> 67 [] c = "D" -> 68
      [] c = "O" -> 79 [] c = "P" -> 80 [] c = "S" -> 83 [] c = "Y" -> 89
      [] c = "[" -> 91 [] c = "]" -> 93
      [] c = "a" -> 97 [] c = "b" -> 98 [] c = "c" -> 99 [] c = "d" -> 100
      [] c = "e" -> 101 [] c = "i" -> 105 [] c = "j" -> 106 [] c = "l" -> 108
      [] c = "m" -> 109 [] c = "n" -> 110 [] c = "o" -> 111 [] c = "p" -> 112
      [] c = "r" -> 114 [] c = "s" -> 115 [] c = "t" -> 116 [] c = "u" -> 117
      [] c = "v" -> 118 [] c = "y" -> 121
      [] c = "{" -> 123 [] c = "}" -> 125
      [] OTHER -> 63

RECURSIVE StrLess(_, _)
StrLess(a, b) ==
    IF b = <<>> THEN FALSE
    ELSE IF a = <<>> THEN TRUE
    ELSE IF Code(Head(a)) # Code(Head(b)) THEN Code(Head(a)) < Code(Head(b))
    ELSE StrLess(Tail(a), Tail(b))

-----------------------------------------------------------------------------
(* JSON values *)

JUndef   == [t |-> "undefined", s |-> <<>>, n |-> 0, b |-> FALSE, o |-> <<>>]
JNull    == [t |-> "null",      s |-> <<>>, n |-> 0, b |-> FALSE, o |-> <<>>]
JStr(x)  == [t |-> "string",    s |-> x,    n |-> 0, b |-> FALSE, o |-> <<>>]
JNum(x)  == [t |-> "number",    s |-> <<>>, n |-> x, b |-> FALSE, o |-> <<>>]
JBool(x) == [t |-> "boolean",   s |-> <<>>, n |-> 0, b |-> x,     o |-> <<>>]
JObj(ps) == [t |-> "object",    s |-> <<>>, n |-> 0, b |-> FALSE, o |-> ps]

Digit(d) ==
    CASE d = 0 -> "0" [] d = 1 -> "1" [] d = 2 -> "2" [] d = 3 -> "3" [] d = 4 -> "4"
      [] d = 5 -> "5" [] d = 6 -> "6" [] d = 7 -> "7" [] d = 8 -> "8" [] OTHER -> "9"

RECURSIVE NumToStr(_)
NumToStr(x) ==
    IF x < 10 THEN <<Digit(x)>> ELSE NumToStr(x \div 10) \o <<Digit(x % 10)>>

\* An array is an object whose keys are its indexes.
JArr(xs) ==
    [t |-> "array", s |-> <<>>, n |-> 0, b |-> FALSE,
     o |-> [i \in 1..Len(xs) |-> <<NumToStr(i - 1), xs[i]>>]]

\* typeof v === 'object' && v !== null
IsObject(v) == v.t \in {"object", "array"}

\* JavaScript truthiness of a JSON value.
Truthy(v) ==
    CASE v.t = "undefined" -> FALSE
      [] v.t = "null"      -> FALSE
      [] v.t = "string"    -> v.s # <<>>
      [] v.t = "number"    -> v.n # 0
      [] v.t = "boolean"   -> v.b
      [] OTHER             -> TRUE

HasKey(v, k) == IsObject(v) /\ \E i \in 1..Len(v.o) : v.o[i][1] = k

\* acc[part]: an object's own property, undefined for anything else.
Prop(v, k) ==
    IF HasKey(v, k)
    THEN v.o[CHOOSE i \in 1..Len(v.o) : v.o[i][1] = k][2]
    ELSE JUndef

\* a || b
Or(a, b) == IF Truthy(a) THEN a ELSE b

RECURSIVE Concat(_)
Concat(ss) == IF ss = <<>> THEN <<>> ELSE Head(ss) \o Concat(Tail(ss))

RECURSIVE JSONstringify(_)
RECURSIVE StringifyPairs(_)
StringifyPairs(ps) ==
    IF ps = <<>> THEN <<>>
    ELSE <<"\"">> \o Head(ps)[1] \o <<"\"", ":">> \o JSONstringify(Head(ps)[2])
         \o (IF Len(ps) > 1 THEN <<",">> ELSE <<>>) \o StringifyPairs(Tail(ps))
RECURSIVE StringifyItems(_)
StringifyItems(ps) ==
    IF ps = <<>> THEN <<>>
    ELSE JSONstringify(Head(ps)[2])
         \o (IF Len(ps) > 1 THEN <<",">> ELSE <<>>) \o StringifyItems(Tail(ps))
JSONstringify(v) ==
    CASE v.t = "null"    -> <<"n", "u", "l", "l">>
      [] v.t = "string"  -> <<"\"">> \o v.s \o <<"\"">>
      [] v.t = "number"  -> NumToStr(v.n)
      [] v.t = "boolean" -> IF v.b THEN <<"t", "r", "u", "e">>
                                   ELSE <<"f", "a", "l", "s", "e">>
      [] v.t = "array"   -> <<"[">> \o StringifyItems(v.o) \o <<"]">>
      [] OTHER           -> <<"{">> \o StringifyPairs(v.o) \o <<"}">>

\* String(value); an array is its items joined by commas, null and undefined
\* items as empty strings
RECURSIVE String(_)
RECURSIVE JoinItems(_)
JoinItems(ps) ==
    IF ps = <<>> THEN <<>>
    ELSE (IF Head(ps)[2].t \in {"null", "undefined"} THEN <<>> ELSE String(Head(ps)[2]))
         \o (IF Len(ps) > 1 THEN <<",">> ELSE <<>>) \o JoinItems(Tail(ps))
String(v) ==
    CASE v.t = "undefined" -> <<"u", "n", "d", "e", "f", "i", "n", "e", "d">>
      [] v.t = "null"      -> <<"n", "u", "l", "l">>
      [] v.t = "string"    -> v.s
      [] v.t = "number"    -> NumToStr(v.n)
      [] v.t = "boolean"   -> IF v.b THEN <<"t", "r", "u", "e">>
                                     ELSE <<"f", "a", "l", "s", "e">>
      [] v.t = "array"     -> JoinItems(v.o)
      [] OTHER             -> <<"[", "o", "b", "j", "e", "c", "t", " ",
                                "O", "b", "j", "e", "c", "t", "]">>

K_display_value == <<"d", "i", "s", "p", "l", "a", "y", "_", "v", "a", "l", "u", "e">>
K_name          == <<"n", "a", "m", "e">>
K_value         == <<"v", "a", "l", "u", "e">>

\* path.split('.').reduce((acc, part) => acc && acc[part], obj)
RECURSIVE Reduce(_, _)
Reduce(acc, parts) ==
    IF parts = <<>> THEN acc
    ELSE Reduce(IF Truthy(acc) THEN Prop(acc, Head(parts)) ELSE acc, Tail(parts))

\* getProperty(obj, path), path given as its split('.') parts
getProperty(obj, parts) ==
    LET value == Reduce(obj, parts) IN
    IF IsObject(value)
    THEN Or(Prop(value, K_display_value),
            Or(Prop(value, K_name),
               Or(Prop(value, K_value), JStr(JSONstringify(value)))))
    ELSE value


RECURSIVE split(_, _)
\* s.split(sep) for a one-character separator
split(s, sep) ==
    IF \A i \in 1..Len(s) : s[i] # sep THEN <<s>>
    ELSE LET k == CHOOSE i \in 1..Len(s) :
                      s[i] = sep /\ \A j \in 1..(i - 1) : s[j] # sep
         IN <<SubSeq(s, 1, k - 1)>> \o split(SubSeq(s, k + 1, Len(s)), sep)

-----------------------------------------------------------------------------
(* GET /api/vendors/status *)

MaxVendors == 2

S_none    == <<"n", "o", "n", "e">>
S_major   == <<"m", "a", "j", "o", "r">>
S_status  == <<"s", "t", "a", "t", "u", "s">>
S_indic   == <<"i", "n", "d", "i", "c", "a", "t", "o", "r">>
S_path    == S_status \o <<".">> \o S_indic
S_url     == <<"u", "r", "l">>

Vendor(id, type, api, path, expected) ==
    [id |-> id, statusType |-> type, apiUrl |-> api, jsonPath |-> path,
     expectedValue |-> expected]

\* The vendors the store may hold: manual ones, fully configured API_JSON ones,
\* and API_JSON ones saved with a field missing or empty (POST /api/vendors
\* requires only name, url and statusType).
VendorPool ==
    { Vendor("v1", "MANUAL",   JNull,       JNull,           JNull),
      Vendor("v2", "API_JSON", JStr(S_url), JStr(S_path),    JStr(S_none)),
      Vendor("v3", "API_JSON", JStr(S_url), JStr(S_path),    JStr(<<"0">>)),
      Vendor("v4", "API_JSON", JUndef,      JStr(S_path),    JStr(S_none)),
      Vendor("v5", "API_JSON", JStr(S_url), JStr(S_path),    JStr(<<>>)),
      Vendor("v6", "MANUAL",   JStr(S_url), JStr(S_path),    JStr(S_none)),
      Vendor("v7", "API_JSON", JStr(S_url), JStr(S_status),  JStr(S_none)) }

\* The bodies a vendor's status endpoint may answer with.
Docs ==
    { JObj(<< <<S_status, JObj(<< <<S_indic, JStr(S_none)>> >>)>> >>),
      JObj(<< <<S_status, JObj(<< <<S_indic, JStr(S_major)>> >>)>> >>),
      JObj(<< <<S_status, JObj(<< <<S_indic,
               JObj(<< <<K_display_value, JStr(S_none)>> >>)>> >>)>> >>),
      JObj(<< <<S_status, JStr(S_none)>> >>),
      JObj(<< <<S_status, JNull>> >>),
      JObj(<< <<S_status, JNum(0)>> >>),
      JObj(<<>>),
      JNull }

Outcome(kind, body) == [kind |-> kind, body |-> body]
NoOutcome == Outcome("none", JUndef)

Promise(st, status, outcome) == [st |-> st, status |-> status, outcome |-> outcome]

\* line 213: the guard of the probe
ShouldProbeSkipsNothing(vendor) == vendor.statusType = "API_JSON"
ShouldProbe(vendor) ==
    /\ vendor.statusType = "API_JSON"
    /\ Truthy(vendor.apiUrl)
    /\ Truthy(vendor.jsonPath)
    /\ Truthy(vendor.expectedValue)

\* lines 222-229: the verdict on a parsed body
ProbeVerdict(vendor, json) ==
    LET value == getProperty(json, split(vendor.jsonPath.s, ".")) IN
    IF value.t = "undefined" THEN "Degraded"
    ELSE IF String(value) = vendor.expectedValue.s THEN "Operational"
    ELSE "Outage"

\* lines 231-234: the catch block of a probe
CatchRethrows(outcome) == Promise("rejected", "", outcome)
CatchHandler(outcome) == Promise("fulfilled", "Degraded", outcome)

\* line 237: the VendorStatus a probe resolves to
VendorStatus(vendor, status) == [id |-> vendor.id, status |-> status]

RECURSIVE SelectIdx(_, _)
SelectIdx(order, ps) ==
    IF order = <<>> THEN <<>>
    ELSE (IF ps[Head(order)].st = "fulfilled" THEN <<Head(order)>> ELSE <<>>)
         \o SelectIdx(Tail(order), ps)

\* line 239: Promise.all keeps the order of its input
StatusesInCompletionOrder(vs, ps, order) ==
    LET idx == SelectIdx(order, ps) IN
    [k \in 1..Len(idx) |-> VendorStatus(vs[idx[k]], ps[idx[k]].status)]
Statuses(vs, ps, order) ==
    [i \in 1..Len(vs) |-> VendorStatus(vs[i], ps[i].status)]

VendorLists ==
    UNION { { s \in [1..n -> VendorPool] : \A i, j \in 1..n : i # j => s[i] # s[j] }
            : n \in 0..MaxVendors }

VendorInit ==
    /\ vendors \in VendorLists
    /\ vpc = "idle"
    /\ probes = <<>>
    /\ httpLog = <<>>
    /\ settleOrder = <<>>
    /\ vresponse = [kind |-> "none", data |-> <<>>]

RECURSIVE Probed(_)
Probed(vs) ==
    IF vs = <<>> THEN <<>>
    ELSE Probed(SubSeq(vs, 1, Len(vs) - 1))
         \o (IF ShouldProbe(vs[Len(vs)]) THEN <<Len(vs)>> ELSE <<>>)

RECURSIVE NotProbed(_)
NotProbed(vs) ==
    IF vs = <<>> THEN <<>>
    ELSE NotProbed(SubSeq(vs, 1, Len(vs) - 1))
         \o (IF ShouldProbe(vs[Len(vs)]) THEN <<>> ELSE <<Len(vs)>>)

\* lines 210-238: vendors.map runs every probe up to its first await, in order:
\* a probed vendor's fetch is issued, an unprobed one resolves Operational.
PollStart ==
    /\ vpc = "idle"
    /\ vpc' = "polling"
    /\ probes' = [i \in 1..Len(vendors) |->
                    IF ShouldProbe(vendors[i])
                    THEN Promise("awaitFetch", "", NoOutcome)
                    ELSE Promise("fulfilled", "Operational", NoOutcome)]
    /\ httpLog' = Probed(vendors)
    /\ settleOrder' = NotProbed(vendors)
    /\ UNCHANGED <<vendors, vresponse, vendorOthers>>

\* lines 215-219 and 231-234: the fetch of vendor i settles
FetchSettles(i) ==
    /\ vpc \in {"polling", "responded"}
    /\ probes[i].st = "awaitFetch"
    /\ \E kind \in {"NetworkError", "NotOk", "Ok"} :
          LET o == Outcome(kind, JUndef) IN
          /\ probes' = [probes EXCEPT ![i] =
                CASE kind = "NetworkError" -> CatchHandler(o)
                  [] kind = "NotOk" -> Promise("fulfilled", "Degraded", o)
                  [] OTHER -> Promise("awaitJson", "", o)]
          /\ settleOrder' = IF kind = "Ok" THEN settleOrder
                            ELSE Append(settleOrder, i)
    /\ UNCHANGED <<vendors, vpc, httpLog, vresponse, vendorOthers>>

\* lines 221-229 and 231-234: response.json() of vendor i settles
JsonSettles(i) ==
    /\ vpc \in {"polling", "responded"}
    /\ probes[i].st = "awaitJson"
    /\ \/ probes' = [probes EXCEPT ![i] = CatchHandler(Outcome("BadBody", JUndef))]
       \/ \E d \in Docs :
             probes' = [probes EXCEPT ![i] =
                Promise("fulfilled", ProbeVerdict(vendors[i], d), Outcome("Json", d))]
    /\ settleOrder' = Append(settleOrder, i)
    /\ UNCHANGED <<vendors, vpc, httpLog, vresponse, vendorOthers>>

\* lines 239-240 and 142-154: Promise.all settles and the handler answers
PollRespond ==
    /\ vpc = "polling"
    /\ \/ /\ \E i \in 1..Len(vendors) : probes[i].st = "rejected"
          /\ vresponse' = [kind |-> "error500", data |-> <<>>]
       \/ /\ \A i \in 1..Len(vendors) : probes[i].st = "fulfilled"
          /\ vresponse' = [kind |-> "ok", data |-> Statuses(vendors, probes, settleOrder)]
    /\ vpc' = "responded"
    /\ UNCHANGED <<vendors, probes, httpLog, settleOrder, vendorOthers>>

VendorNext ==
    \/ PollStart
    \/ \E i \in 1..Len(vendors) : FetchSettles(i)
    \/ \E i \in 1..Len(vendors) : JsonSettles(i)
    \/ PollRespond

-----------------------------------------------------------------------------
(* Claims about the vendor status poll *)

Responded == vpc = "responded"

FailedKinds == {"NetworkError", "NotOk", "BadBody"}

IsAscending(order) == \A a, b \in 1..Len(order) : a < b => order[a] < order[b]

\* C1: the poll answers with one result per vendor of the list, in the list's
\* order, result i carrying the id of vendor i, whatever the order in which the
\* probes completed and whichever probes failed.
C1_SameLengthSameOrder ==
    Responded =>
        /\ vresponse.kind = "ok"
        /\ Len(vresponse.data) = Len(vendors)
        /\ \A i \in 1..Len(vendors) : vresponse.data[i].id = vendors[i].id

\* C1 happens: a batch answered whose probes completed out of list order, one
\* of them failed.
C1_Witness ==
    /\ Responded
    /\ Len(vendors) >= 2
    /\ ~IsAscending(settleOrder)
    /\ \E i \in 1..Len(vendors) : probes[i].outcome.kind \in FailedKinds

\* The status of a vendor polled alone whose probe had the given outcome.
AloneStatus(vendor, outcome) ==
    IF outcome.kind = "none" THEN "Operational"
    ELSE IF outcome.kind \in FailedKinds THEN "Degraded"
    ELSE ProbeVerdict(vendor, outcome.body)

\* C2: a failing probe never fails the batch and never changes another
\* vendor's verdict: one result per vendor, the failing vendor Degraded, every
\* vendor's status the one it has when polled alone.
C2_FailureIsolated ==
    Responded =>
        /\ vresponse.kind = "ok"
        /\ Len(vresponse.data) = Len(vendors)
        /\ \A i \in 1..Len(vendors) :
              /\ probes[i].outcome.kind \in FailedKinds
                    => vresponse.data[i].status = "Degraded"
              /\ vresponse.data[i].status = AloneStatus(vendors[i], probes[i].outcome)

\* C2 happens: a batch answered in which one probe threw a network error and
\* another, probed vendor is Operational.
C2_Witness ==
    /\ Responded
    /\ \E i, j \in 1..Len(vendors) :
          /\ i # j
          /\ probes[i].outcome.kind = "NetworkError"
          /\ probes[j].outcome.kind = "Json"
          /\ vresponse.data[j].status = "Operational"

\* Every segment of the path is a key of the value reached so far.
RECURSIVE PathPresent(_, _)
PathPresent(v, parts) ==
    \/ parts = <<>>
    \/ /\ HasKey(v, Head(parts))
       /\ PathPresent(Prop(v, Head(parts)), Tail(parts))

\* C3: a probed vendor is Degraded on a non-success status, Degraded when the
\* request or the body parsing throws; on success Degraded when the JSON path
\* yields nothing in the body, Operational when the resolved value stringified
\* equals the expected value, Outage otherwise.
C3_VerdictTable ==
    \A i \in 1..Len(probes) :
        (probes[i].st = "fulfilled" /\ probes[i].outcome.kind # "none") =>
            LET parts == split(vendors[i].jsonPath.s, ".")
                body  == probes[i].outcome.body
            IN probes[i].status =
                 IF probes[i].outcome.kind \in FailedKinds THEN "Degraded"
                 ELSE IF ~PathPresent(body, parts) THEN "Degraded"
                 ELSE IF String(getProperty(body, parts)) = vendors[i].expectedValue.s
                      THEN "Operational"
                 ELSE "Outage"

NonEmptyString(v) == v.t = "string" /\ Len(v.s) > 0

FullyConfigured(vendor) ==
    /\ vendor.statusType = "API_JSON"
    /\ NonEmptyString(vendor.apiUrl)
    /\ NonEmptyString(vendor.jsonPath)
    /\ NonEmptyString(vendor.expectedValue)

Requests(i) == Cardinality({k \in 1..Len(httpLog) : httpLog[k] = i})

\* C4 as stated: a manual vendor is Operational without any HTTP request, and
\* every vendor that is not manual is probed with an HTTP GET before its
\* verdict is decided.
C4_NonManualAlwaysProbed ==
    vpc # "idle" =>
        \A i \in 1..Len(vendors) :
            IF vendors[i].statusType = "MANUAL"
            THEN Requests(i) = 0 /\ probes[i] = Promise("fulfilled", "Operational", NoOutcome)
            ELSE Requests(i) = 1

\* C4 amended: a vendor is probed with one HTTP GET exactly when its type is
\* API_JSON and its apiUrl, jsonPath and expectedValue are all non-empty, and
\* its verdict is decided only after that request; every other vendor (manual,
\* or API_JSON with a field missing or empty) is Operational without any request.
C4_ProbedIffFullyConfigured ==
    vpc # "idle" =>
        \A i \in 1..Len(vendors) :
            IF FullyConfigured(vendors[i])
            THEN Requests(i) = 1
            ELSE Requests(i) = 0 /\ probes[i] = Promise("fulfilled", "Operational", NoOutcome)

\* C4 happens: a poll that probed a fully configured vendor and reported a
\* manual vendor and an incompletely configured API_JSON vendor Operational
\* without a request.
C4_Witness ==
    /\ Responded
    /\ \E i \in 1..Len(vendors) :
          /\ vendors[i].statusType = "API_JSON" /\ ~FullyConfigured(vendors[i])
          /\ Requests(i) = 0 /\ vresponse.data[i].status = "Operational"
    /\ \E j \in 1..Len(vendors) : Requests(j) = 1

-----------------------------------------------------------------------------
(* ServiceNow config: ServiceNowConfigEntity and /api/servicenow/config *)

MaxSaves == 2

S_outage       == <<"o", "u", "t", "a", "g", "e">>
S_Outage       == <<"O", "u", "t", "a", "g", "e">>
S_degradation  == <<"d", "e", "g", "r", "a", "d", "a", "t", "i", "o", "n">>
S_Degradation  == <<"D", "e", "g", "r", "a", "d", "a", "t", "i", "o", "n">>
K_servicenowValue == <<"s", "e", "r", "v", "i", "c", "e", "n", "o", "w",
                       "V", "a", "l", "u", "e">>
K_dashboardValue  == <<"d", "a", "s", "h", "b", "o", "a", "r", "d",
                       "V", "a", "l", "u", "e">>

MappingItem(sn, dash) ==
    JObj(<< <<K_servicenowValue, JStr(sn)>>, <<K_dashboardValue, JStr(dash)>> >>)

\* ServiceNowConfigEntity.initialState.impactLevelMapping
DefaultImpactLevelMapping ==
    JArr(<< MappingItem(S_outage, S_Outage),
            MappingItem(S_degradation, S_Degradation) >>)

Config(enabled, instanceUrl, mapping) ==
    [enabled |-> enabled, instanceUrl |-> instanceUrl, impactLevelMapping |-> mapping]

\* ServiceNowConfigEntity.initialState
initialState == Config(FALSE, <<>>, DefaultImpactLevelMapping)

\* The impactLevelMapping values a POST body may carry: missing, null, a
\* non-list (a string, an object), the empty list, and lists with entries.
MappingValues ==
    { JUndef, JNull, JStr(S_outage), JObj(<<>>), JArr(<<>>),
      DefaultImpactLevelMapping,
      JArr(<< MappingItem(<<"P", "1">>, S_Outage) >>) }

ConfigBodies ==
    { Config(e, u, m) : e \in BOOLEAN, u \in {<<>>, S_url}, m \in MappingValues }

Absent == [enabled |-> FALSE, instanceUrl |-> <<"?">>, impactLevelMapping |-> JUndef]

\* Entity.getState of the store: the saved record, the entity's initialState
\* while nothing was saved
superGetState(st) == IF st = Absent THEN initialState ELSE st

\* A store that patches: an empty field of the body keeps the stored one.
superSavePatches(st, body) ==
    IF st = Absent THEN body
    ELSE [body EXCEPT !.instanceUrl = IF @ = <<>> THEN st.instanceUrl ELSE @]

\* Entity.save of the store: the record is replaced wholesale
superSave(st, body) == body

\* ServiceNowConfigEntity.getState
getStateNoRepair(st) == superGetState(st)
getState(st) ==
    LET state == superGetState(st) IN
    IF ~Truthy(state.impactLevelMapping) \/ state.impactLevelMapping.t # "array"
    THEN [state EXCEPT !.impactLevelMapping = initialState.impactLevelMapping]
    ELSE state

NoRead == [cfg |-> Absent, raw |-> Absent, n |-> 0]

ConfigInit ==
    /\ stored = Absent
    /\ lastRead = NoRead
    /\ saves = 0
    /\ saved = {}

\* POST /api/servicenow/config
SaveConfig ==
    /\ saves < MaxSaves
    /\ \E body \in ConfigBodies :
          /\ stored' = superSave(stored, body)
          /\ saved' = saved \cup {body}
    /\ saves' = saves + 1
    /\ UNCHANGED <<lastRead, configOthers>>

\* GET /api/servicenow/config; raw is the record the store held at the read
ReadConfig ==
    /\ lastRead' = [cfg |-> getState(stored), raw |-> stored, n |-> saves + 1]
    /\ UNCHANGED <<stored, saves, saved, configOthers>>

ConfigNext == SaveConfig \/ ReadConfig

-----------------------------------------------------------------------------
(* Claims about the config store *)

IsList(v) == v.t = "array"

\* C10 as stated: every read of the config returns an impact mapping that is a
\* non-empty list.
C10_MappingNonEmptyList ==
    lastRead.n > 0 =>
        /\ IsList(lastRead.cfg.impactLevelMapping)
        /\ Len(lastRead.cfg.impactLevelMapping.o) > 0

\* C10 amended: every read of the config returns an impact mapping that is a
\* list, possibly empty: a missing, null or non-list stored value is replaced
\* by the built-in default mapping on read, and a stored list, the empty one
\* included, is returned as saved.
C10_MappingIsList ==
    lastRead.n > 0 =>
        /\ IsList(lastRead.cfg.impactLevelMapping)
        /\ IF lastRead.raw # Absent /\ IsList(lastRead.raw.impactLevelMapping)
           THEN lastRead.cfg.impactLevelMapping = lastRead.raw.impactLevelMapping
           ELSE lastRead.cfg.impactLevelMapping = DefaultImpactLevelMapping

\* C10 happens: a read after a save whose impact mapping was not a list
\* returned the default mapping.
C10_Witness ==
    /\ lastRead.n > 1
    /\ lastRead.raw # Absent
    /\ ~IsList(lastRead.raw.impactLevelMapping)
    /\ lastRead.cfg.impactLevelMapping = DefaultImpactLevelMapping

\* the config is that record, but for the repair of its impact mapping
IsRepairOf(cfg, record) ==
    /\ cfg.enabled = record.enabled
    /\ cfg.instanceUrl = record.instanceUrl
    /\ \/ cfg.impactLevelMapping = record.impactLevelMapping
       \/ cfg.impactLevelMapping = DefaultImpactLevelMapping

\* C11: under any interleaving of saves and reads, every read returns the
\* built-in defaults or the body of one single save (but for the repair of the
\* impact mapping), never a mixture of the fields of two saves or of a save and
\* the defaults.
C11_ReadIsDefaultsOrOneSave ==
    lastRead.n > 0 =>
        \E record \in saved \cup {initialState} : IsRepairOf(lastRead.cfg, record)

\* C11 happens: a read after two saves of bodies that differ in every field
\* returned the second body.
C11_Witness ==
    /\ lastRead.n > 2
    /\ lastRead.raw \in saved
    /\ lastRead.cfg = lastRead.raw
    /\ \E other \in saved :
          /\ other.enabled # lastRead.raw.enabled
          /\ other.instanceUrl # lastRead.raw.instanceUrl
          /\ other.impactLevelMapping # lastRead.raw.impactLevelMapping

-----------------------------------------------------------------------------
(* OutageTrendsPanel: the useMemo that aggregates history into chartData *)

MaxHist == 2
SlotsPerDay == 3
LastOffset == 6

\* Instants are slots, SlotsPerDay to a calendar day of the local time zone.
Today == LastOffset + 2
DayOf(t) == t \div SlotsPerDay
At(day, slot) == day * SlotsPerDay + slot

\* subDays(date, n)
subDays(t, n) == t - n * SlotsPerDay

\* format(date, 'yyyy-MM-dd')
formatDayKey(t) == <<"d", "a", "y", "-">> \o NumToStr(DayOf(t))

\* format(date, 'MMM d')
formatLabel(t) == <<"D", "a", "y", " ">> \o NumToStr(DayOf(t))

\* parseISO(outage.startTime): startTime holds the instant the ISO string names
parseISO(startTime) == startTime

S_db      == <<"d", "b">>
S_api     == <<"a", "p", "i">>
S_date    == <<"d", "a", "t", "e">>
S_dayKey  == <<"d", "a", "y", "K", "e", "y">>
S_Unknown == <<"U", "n", "k", "n", "o", "w", "n", " ", "S", "y", "s", "t", "e", "m">>

OutageRec(start, system, impact) ==
    [startTime |-> start, systemName |-> system, impactLevel |-> impact]

\* The canonical outages /api/outages/history may return: on the first day of
\* the window early and late, the day before the window, today, tomorrow, with
\* padded system names and with a system whose name is "date".
OutagePool ==
    { OutageRec(At(Today - 6, 0), S_db, S_Outage),
      OutageRec(At(Today - 6, SlotsPerDay - 1), <<" ">> \o S_db \o <<" ">>, S_Degradation),
      OutageRec(At(Today - 7, SlotsPerDay - 1), S_api, S_Outage),
      OutageRec(At(Today, 0), S_api, S_Outage),
      OutageRec(At(Today + 1, 0), S_db, S_Degradation),
      OutageRec(At(Today - 3, 1), S_api \o <<" ">>, S_Degradation),
      OutageRec(At(Today, 1), S_date, S_Degradation) }

Histories == UNION { [1..n -> OutagePool] : n \in 0..MaxHist }

\* line 25: normalizeSystem
normalizeSystem(name) == trim(IF name = <<>> THEN S_Unknown ELSE name)

\* line 27: IMPACT_LEVELS
IMPACT_LEVELS == <<S_Outage, S_Degradation>>

\* row[k] = v on a JavaScript object: an existing property keeps its place
SetProp(obj, k, v) ==
    IF HasKey(obj, k)
    THEN [obj EXCEPT !.o = [i \in 1..Len(obj.o) |->
                               IF obj.o[i][1] = k THEN <<k, v>> ELSE obj.o[i]]]
    ELSE [obj EXCEPT !.o = Append(obj.o, <<k, v>>)]

\* x + 1: addition for a number, concatenation for a string
PlusOne(x) == IF x.t = "number" THEN JNum(x.n + 1) ELSE JStr(String(x) \o <<"1">>)

\* (x as number) > 0; the strings of a row (day key, label) are not numeric
GreaterThanZero(x) == x.t = "number" /\ x.n > 0

Bucket(key, row) == [key |-> key, row |-> row]

\* lines 105-110: the day buckets, oldest first
BucketOffsetsOffByOne == [i \in 1..(LastOffset + 2) |-> LastOffset + 2 - i]
BucketOffsets == [i \in 1..(LastOffset + 1) |-> LastOffset + 1 - i]

RECURSIVE MapSet(_, _, _)
\* dataMap.set(key, row)
MapSet(dm, key, row) ==
    IF \E i \in 1..Len(dm) : dm[i].key = key
    THEN [i \in 1..Len(dm) |-> IF dm[i].key = key THEN Bucket(key, row) ELSE dm[i]]
    ELSE Append(dm, Bucket(key, row))

RECURSIVE BuildBuckets(_, _, _)
BuildBuckets(dm, now, offsets) ==
    IF offsets = <<>> THEN dm
    ELSE LET day == subDays(now, Head(offsets)) IN
         BuildBuckets(
            MapSet(dm, formatDayKey(day),
                   JObj(<< <<S_dayKey, JStr(formatDayKey(day))>>,
                           <<S_date, JStr(formatLabel(day))>> >>)),
            now, Tail(offsets))

MapHas(dm, key) == \E i \in 1..Len(dm) : dm[i].key = key
MapIndex(dm, key) == CHOOSE i \in 1..Len(dm) : dm[i].key = key

\* the row of a bucket replaced by f(row); rows are shared objects of the map
UpdateRow(dm, i, row) == [dm EXCEPT ![i].row = row]

RECURSIVE ZeroKeys(_, _)
\* keys.forEach(k => (row[k] = 0))
ZeroKeys(row, keys) ==
    IF keys = <<>> THEN row ELSE ZeroKeys(SetProp(row, Head(keys), JNum(0)), Tail(keys))

Includes(seq, x) == \E i \in 1..Len(seq) : seq[i] = x

\* lines 119, 135: dt < sevenDaysAgo skips the outage
BeforeCutoff(dt, sevenDaysAgo) == dt < sevenDaysAgo

RECURSIVE CountImpact(_, _, _, _)
\* lines 117-126
CountImpact(dm, hist, sevenDaysAgo, impactKeys) ==
    IF hist = <<>> THEN dm
    ELSE LET outage == Head(hist)
             dt     == parseISO(outage.startTime)
             dayKey == formatDayKey(dt)
         IN  IF BeforeCutoff(dt, sevenDaysAgo) \/ ~MapHas(dm, dayKey)
                \/ ~Includes(impactKeys, outage.impactLevel)
             THEN CountImpact(dm, Tail(hist), sevenDaysAgo, impactKeys)
             ELSE LET i   == MapIndex(dm, dayKey)
                      row == dm[i].row
                  IN  CountImpact(
                         UpdateRow(dm, i, SetProp(row, outage.impactLevel,
                                        PlusOne(Prop(row, outage.impactLevel)))),
                         Tail(hist), sevenDaysAgo, impactKeys)

\* lines 133-142: [dataMap, allSystemNames] after the counting loop
RECURSIVE CountSystems(_, _, _, _)
CountSystems(dm, names, hist, sevenDaysAgo) ==
    IF hist = <<>> THEN <<dm, names>>
    ELSE LET outage == Head(hist)
             dt     == parseISO(outage.startTime)
             dayKey == formatDayKey(dt)
         IN  IF BeforeCutoff(dt, sevenDaysAgo) \/ ~MapHas(dm, dayKey)
             THEN CountSystems(dm, names, Tail(hist), sevenDaysAgo)
             ELSE LET i   == MapIndex(dm, dayKey)
                      row == dm[i].row
                      sys == normalizeSystem(outage.systemName)
                  IN  CountSystems(
                         UpdateRow(dm, i, SetProp(row, sys,
                                        PlusOne(Or(Prop(row, sys), JNum(0))))),
                         IF Includes(names, sys) THEN names ELSE Append(names, sys),
                         Tail(hist), sevenDaysAgo)

RECURSIVE Filter(_, _)
\* lines 145-146: the systems with a count above zero in some row
Filter(names, dm) ==
    IF names = <<>> THEN <<>>
    ELSE (IF \E i \in 1..Len(dm) : GreaterThanZero(Prop(dm[i].row, Head(names)))
          THEN <<Head(names)>> ELSE <<>>) \o Filter(Tail(names), dm)

RECURSIVE Insert(_, _)
Insert(sorted, x) ==
    IF sorted = <<>> THEN <<x>>
    ELSE IF StrLess(x, Head(sorted)) THEN <<x>> \o sorted
    ELSE <<Head(sorted)>> \o Insert(Tail(sorted), x)

RECURSIVE sort(_)
\* line 147: Array.prototype.sort() of strings
sort(names) ==
    IF names = <<>> THEN <<>>
    ELSE Insert(sort(SubSeq(names, 1, Len(names) - 1)), names[Len(names)])

RECURSIVE BackFill(_, _)
\* lines 151-153: systemsWithCounts.forEach(sys => ...) on one row
BackFill(row, keys) ==
    IF keys = <<>> THEN row
    ELSE BackFill(IF Prop(row, Head(keys)).t # "number"
                  THEN SetProp(row, Head(keys), JNum(0)) ELSE row, Tail(keys))

ChartOf(dm, keys) ==
    [dayKeys   |-> [i \in 1..Len(dm) |-> dm[i].key],
     chartData |-> [i \in 1..Len(dm) |-> dm[i].row],
     keys      |-> keys]

\* lines 96-157: the useMemo callback
Aggregate(hist, breakdown, now) ==
    LET sevenDaysAgo == subDays(now, LastOffset)
        dataMap      == BuildBuckets(<<>>, now, BucketOffsets)
    IN  IF breakdown = "impact"
        THEN LET impactKeys == IMPACT_LEVELS
                 zeroed == [i \in 1..Len(dataMap) |->
                              Bucket(dataMap[i].key, ZeroKeys(dataMap[i].row, impactKeys))]
             IN  ChartOf(CountImpact(zeroed, hist, sevenDaysAgo, impactKeys), impactKeys)
        ELSE LET counted == CountSystems(dataMap, <<>>, hist, sevenDaysAgo)
                 systemsWithCounts == sort(Filter(counted[2], counted[1]))
                 filled == [i \in 1..Len(counted[1]) |->
                              Bucket(counted[1][i].key,
                                     BackFill(counted[1][i].row, systemsWithCounts))]
             IN  ChartOf(filled, systemsWithCounts)

Clock == { At(Today, slot) : slot \in 0..(SlotsPerDay - 1) }

\* lines 64-67 and the first render: no history, breakdown by impact
TrendInit ==
    /\ serverHistory \in Histories
    /\ history = <<>>
    /\ breakdownType = "impact"
    /\ tnow \in Clock
    /\ chart = Aggregate(<<>>, "impact", tnow)

\* lines 73-74: the fetch resolved, setHistory(data), and the re-render
HistoryLoaded ==
    /\ history' = serverHistory
    /\ tnow' \in Clock
    /\ chart' = Aggregate(history', breakdownType, tnow')
    /\ UNCHANGED <<serverHistory, breakdownType, trendOthers>>

\* lines 75-78: the fetch failed, setHistory([]), and the re-render
HistoryFailed ==
    /\ history' = <<>>
    /\ tnow' \in Clock
    /\ chart' = Aggregate(history', breakdownType, tnow')
    /\ UNCHANGED <<serverHistory, breakdownType, trendOthers>>

\* line 166: setBreakdownType(value), and the re-render
BreakdownChanged ==
    /\ \E b \in {"impact", "system"} : b # breakdownType /\ breakdownType' = b
    /\ tnow' \in Clock
    /\ chart' = Aggregate(history, breakdownType', tnow')
    /\ UNCHANGED <<serverHistory, history, trendOthers>>

TrendNext == HistoryLoaded \/ HistoryFailed \/ BreakdownChanged

-----------------------------------------------------------------------------
(* Claims about the trend aggregation *)

\* The calendar days of the trailing window that ends on the day of tnow.
WindowDays == (DayOf(tnow) - 6)..DayOf(tnow)

InWindow(outage) == DayOf(outage.startTime) \in WindowDays

\* C7: for any history, the empty one included, and either grouping mode the
\* aggregation yields exactly 7 buckets, bucket i being calendar day i of the
\* trailing window that ends today, so the days are distinct and ascending.
C7_SevenDayBuckets ==
    /\ Len(chart.chartData) = 7
    /\ Len(chart.dayKeys) = 7
    /\ \A i \in 1..7 :
          /\ i \in DOMAIN chart.dayKeys
          /\ chart.dayKeys[i] = formatDayKey(At(DayOf(tnow) - 7 + i, 0))
    /\ \A i, j \in DOMAIN chart.dayKeys :
          i < j => StrLess(chart.dayKeys[i], chart.dayKeys[j])

\* C7 happens: a chart by system computed from a history that holds an outage
\* before the window and an outage inside it.
C7_Witness ==
    /\ breakdownType = "system"
    /\ \E i \in 1..Len(history) : ~InWindow(history[i])
    /\ \E i \in 1..Len(history) : InWindow(history[i])
    /\ chart.keys # <<>>

NumberOr0(v) == IF v.t = "number" THEN v.n ELSE 0

RECURSIVE SumKeys(_, _)
SumKeys(row, keys) ==
    IF keys = <<>> THEN 0
    ELSE NumberOr0(Prop(row, Head(keys))) + SumKeys(row, Tail(keys))

RECURSIVE SumRows(_, _)
SumRows(rows, keys) ==
    IF rows = <<>> THEN 0 ELSE SumKeys(Head(rows), keys) + SumRows(Tail(rows), keys)

\* C8: by impact, the counts of the 7 buckets sum to the number of outages of
\* the history whose startTime falls on one of the 7 calendar days of the
\* window; outages outside the window count for nothing.
C8_SumIsInWindowCount ==
    breakdownType = "impact" =>
        SumRows(chart.chartData, chart.keys)
            = Cardinality({i \in 1..Len(history) : InWindow(history[i])})

IsNumber(v) == v.t = "number"

SeqToSet(seq) == {seq[i] : i \in 1..Len(seq)}

\* C9: every bucket carries a number for every key of the key list; by impact
\* the key list is the canonical impact vocabulary; by system it is the set of
\* distinct trimmed system names with an outage counted somewhere in the
\* window, without duplicates, in lexicographic order.
C9_KeyShape ==
    /\ \A i \in 1..Len(chart.chartData) : \A k \in 1..Len(chart.keys) :
          IsNumber(Prop(chart.chartData[i], chart.keys[k]))
    /\ breakdownType = "impact" => chart.keys = <<S_Outage, S_Degradation>>
    /\ breakdownType = "system" =>
          /\ \A a, b \in 1..Len(chart.keys) :
                a < b => StrLess(chart.keys[a], chart.keys[b])
          /\ SeqToSet(chart.keys)
                = { trim(history[i].systemName) :
                      i \in {j \in 1..Len(history) : InWindow(history[j])} }

-----------------------------------------------------------------------------
(* ScheduledChangesPanel: the pure helpers *)

K_result   == <<"r", "e", "s", "u", "l", "t">>
K_items    == <<"i", "t", "e", "m", "s">>
K_data     == <<"d", "a", "t", "a">>
K_id       == <<"i", "d">>
K_number   == <<"n", "u", "m", "b", "e", "r">>
K_summary  == <<"s", "u", "m", "m", "a", "r", "y">>
K_offering == <<"o", "f", "f", "e", "r", "i", "n", "g">>
K_service_offering == <<"s", "e", "r", "v", "i", "c", "e", "_", "o", "f", "f", "e", "r", "i", "n", "g">>
K_start    == <<"s", "t", "a", "r", "t">>
K_end      == <<"e", "n", "d">>
K_state    == <<"s", "t", "a", "t", "e">>
K_status   == <<"s", "t", "a", "t", "u", "s">>
K_type     == <<"t", "y", "p", "e">>
K_url      == <<"u", "r", "l">>
K_sys_id   == <<"s", "y", "s", "_", "i", "d">>
K_isHot    == <<"_", "_", "i", "s", "H", "o", "t">>
K_start_date         == <<"s", "t", "a", "r", "t", "_", "d", "a", "t", "e">>
K_planned_start_date == <<"p", "l", "a", "n", "n", "e", "d", "_", "s", "t", "a", "r", "t", "_", "d", "a", "t", "e">>
K_window_start       == <<"w", "i", "n", "d", "o", "w", "_", "s", "t", "a", "r", "t">>
K_end_date           == <<"e", "n", "d", "_", "d", "a", "t", "e">>
K_planned_end_date   == <<"p", "l", "a", "n", "n", "e", "d", "_", "e", "n", "d", "_", "d", "a", "t", "e">>
K_window_end         == <<"w", "i", "n", "d", "o", "w", "_", "e", "n", "d">>
K_short_description  == <<"s", "h", "o", "r", "t", "_", "d", "e", "s", "c", "r", "i", "p", "t", "i", "o", "n">>
K_description        == <<"d", "e", "s", "c", "r", "i", "p", "t", "i", "o", "n">>
K_change_type        == <<"c", "h", "a", "n", "g", "e", "_", "t", "y", "p", "e">>
K_instance_base_url  == <<"i", "n", "s", "t", "a", "n", "c", "e", "_", "b", "a", "s", "e", "_", "u", "r", "l">>

\* a ?? b
Nc(a, b) == IF a.t \in {"undefined", "null"} THEN b ELSE a

IsArray(v) == v.t = "array"

\* the items of an array
Items(arr) == [i \in 1..Len(arr.o) |-> arr.o[i][2]]

coerceArray(payload) ==
    IF IsArray(payload) THEN payload
    ELSE IF Truthy(payload) /\ IsArray(Prop(payload, K_result)) THEN Prop(payload, K_result)
    ELSE IF Truthy(payload) /\ IsArray(Prop(payload, K_items)) THEN Prop(payload, K_items)
    ELSE IF Truthy(payload) /\ IsArray(Prop(payload, K_data)) THEN Prop(payload, K_data)
    ELSE JArr(<<>>)

asText(v) ==
    IF v.t \in {"undefined", "null"} THEN <<>>
    ELSE IF IsObject(v)
    THEN IF HasKey(v, K_display_value)
         THEN String(Nc(Prop(v, K_display_value), JStr(<<>>)))
         ELSE IF HasKey(v, K_value)
         THEN String(Nc(Prop(v, K_value), JStr(<<>>)))
         ELSE JSONstringify(v)
    ELSE String(v)

\* Date strings are written <day>T<slot> (ISO) or <day> <slot> (the
\* ServiceNow form with a blank between date and time), day and slot in digits.
IsDigits(s) ==
    s # <<>> /\ \A i \in 1..Len(s) :
                  s[i] \in {"0", "1", "2", "3", "4", "5", "6", "7", "8", "9"}

RECURSIVE StrToNum(_)
StrToNum(s) ==
    IF s = <<>> THEN 0
    ELSE 10 * StrToNum(SubSeq(s, 1, Len(s) - 1))
         + (CHOOSE d \in 0..9 : Digit(d) = s[Len(s)])

\* the string is <digits><sep><digits>
IsStamp(s, sep) ==
    \E k \in 1..Len(s) :
        /\ s[k] = sep
        /\ IsDigits(SubSeq(s, 1, k - 1))
        /\ IsDigits(SubSeq(s, k + 1, Len(s)))

\* s.replace(a, b): the first occurrence only
replace(s, a, b) ==
    IF \A i \in 1..Len(s) : s[i] # a THEN s
    ELSE LET k == CHOOSE i \in 1..Len(s) : s[i] = a /\ \A j \in 1..(i - 1) : s[j] # a
         IN [s EXCEPT ![k] = b]

\* string | null
normDateStr(v) ==
    LET s == trim(asText(v)) IN
    IF s = <<>> THEN JNull
    ELSE IF IsStamp(s, " ") THEN JStr(replace(s, " ", "T"))
    ELSE JStr(s)

\* Date | null: an instant, or NullDate
NullDate == 0 - 1

\* new Date(n), NullDate standing for an invalid date
NewDate(n) ==
    IF IsStamp(n, "T")
    THEN LET k == CHOOSE i \in 1..Len(n) : n[i] = "T"
             slot == StrToNum(SubSeq(n, k + 1, Len(n)))
         IN IF slot < SlotsPerDay THEN At(StrToNum(SubSeq(n, 1, k - 1)), slot)
            ELSE NullDate
    ELSE NullDate

safeParse(v) ==
    LET n == normDateStr(v) IN
    IF ~Truthy(n) THEN NullDate ELSE NewDate(n.s)

\* s.includes(w)
includes(s, w) ==
    \E i \in 1..(Len(s) - Len(w) + 1) : SubSeq(s, i, i + Len(w) - 1) = w

\* isCancelled without the test: no state counts as cancelled
isCancelledNever(state) == FALSE

isCancelled(state) == includes(toLowerCase(asText(state)), <<"c", "a", "n", "c", "e", "l">>)

isAllowedState(state) ==
    LET s == toLowerCase(asText(state)) IN
    \E w \in {<<"s", "c", "h", "e", "d", "u", "l", "e", "d">>, <<"i", "m", "p", "l", "e", "m", "e", "n", "t">>, <<"r", "e", "v", "i", "e", "w">>} : includes(s, w)

buildUrl(row) ==
    IF Truthy(Prop(row, K_url)) THEN JStr(asText(Prop(row, K_url)))
    ELSE IF Truthy(Prop(row, K_sys_id)) /\ Truthy(Prop(row, K_instance_base_url))
    THEN JStr(String(Prop(row, K_instance_base_url))
              \o <<"/", "n", "a", "v", "_", "t", "o", ".", "d", "o", "?", "u", "r", "i", "=", "c", "h", "a", "n", "g", "e", "_", "r", "e", "q", "u", "e", "s", "t", ".", "d", "o", "?", "s", "y", "s", "_", "i", "d", "=">>
              \o String(Prop(row, K_sys_id)))
    ELSE JNull

\* { ...obj, ...row }: a key of row overrides the value of the same key of obj
\* and keeps its place, a new key is appended
RECURSIVE SpreadPairs(_, _)
SpreadPairs(obj, ps) ==
    IF ps = <<>> THEN obj
    ELSE SpreadPairs(SetProp(obj, Head(ps)[1], Head(ps)[2]), Tail(ps))

Spread(obj, row) == IF IsObject(row) THEN SpreadPairs(obj, row.o) ELSE obj

\* the Set of the trimmed, lower-cased offerings of the outage rows
hotOfferingsOf(outagesPayload) ==
    LET outageRows == Items(coerceArray(Nc(Prop(outagesPayload, K_data), outagesPayload)))
    IN { s \in { toLowerCase(trim(asText(
                     Nc(Prop(outageRows[i], K_offering),
                        Nc(Prop(outageRows[i], K_service_offering), JStr(<<>>))))))
                 : i \in 1..Len(outageRows) } : s # <<>> }

\* the offering the row is joined on
OfferingOf(row) ==
    trim(asText(Nc(Prop(row, K_offering), Nc(Prop(row, K_service_offering), JStr(<<>>)))))

ComputedHot(row, hotOfferings) ==
    IF OfferingOf(row) # <<>> THEN toLowerCase(OfferingOf(row)) \in hotOfferings ELSE FALSE

\* the callback of .map(): the literal's fields, then ...row on top of them
ChangeItem(row, hotOfferings) ==
    LET start == Nc(Prop(row, K_start), Nc(Prop(row, K_start_date),
                    Nc(Prop(row, K_planned_start_date), Nc(Prop(row, K_window_start), JNull))))
        end   == Nc(Prop(row, K_end), Nc(Prop(row, K_end_date),
                    Nc(Prop(row, K_planned_end_date), Nc(Prop(row, K_window_end), JNull))))
        offering == OfferingOf(row)
        fallbackId == String(Or(Prop(row, K_sys_id), JStr(<<>>))) \o <<":">>
                      \o String(Or(Prop(row, K_number), JStr(<<>>)))
    IN Spread(JObj(<<
           <<K_id, JStr(asText(Nc(Prop(row, K_id), Nc(Prop(row, K_sys_id),
                        Nc(Prop(row, K_number), JStr(fallbackId))))))>>,
           <<K_number, JStr(asText(Nc(Prop(row, K_number), JStr(<<>>))))>>,
           <<K_summary, JStr(asText(Nc(Prop(row, K_summary), Nc(Prop(row, K_short_description),
                        Nc(Prop(row, K_description), JStr(<<"(", "n", "o", " ", "s", "u", "m", "m", "a", "r", "y", ")">>))))))>>,
           <<K_offering, JStr(offering)>>,
           <<K_start, start>>,
           <<K_end, end>>,
           <<K_state, JStr(asText(Nc(Prop(row, K_state), Nc(Prop(row, K_status), JStr(<<>>)))))>>,
           <<K_type, JStr(asText(Nc(Prop(row, K_type), Nc(Prop(row, K_change_type), JStr(<<>>)))))>>,
           <<K_url, buildUrl(row)>>,
           <<K_sys_id, JStr(asText(Nc(Prop(row, K_sys_id), JStr(<<>>))))>>,
           <<K_isHot, JBool(ComputedHot(row, hotOfferings))>>
       >>), row)

\* the third .filter() without the window: every change is kept
InTodayWindowAlways(item, now) == TRUE

\* the third .filter(): the change's window touches today
InTodayWindow(item, now) ==
    LET ds == safeParse(Prop(item, K_start))
        de == safeParse(Prop(item, K_end))
        dayStart == At(DayOf(now), 0)
        dayEnd   == At(DayOf(now), SlotsPerDay - 1)
    IN IF ds = NullDate /\ de = NullDate THEN TRUE
       ELSE IF ds # NullDate /\ de # NullDate THEN ds <= dayEnd /\ de >= dayStart
       ELSE IF ds # NullDate THEN ds <= dayEnd
       ELSE de >= dayStart

Keep(item, now) ==
    /\ ~isCancelled(Prop(item, K_state))
    /\ isAllowedState(Prop(item, K_state))
    /\ InTodayWindow(item, now)

RECURSIVE FilterItems(_, _)
FilterItems(rows, now) ==
    IF rows = <<>> THEN <<>>
    ELSE (IF Keep(Head(rows), now) THEN <<Head(rows)>> ELSE <<>>)
         \o FilterItems(Tail(rows), now)

\* a comparator that orders nothing: the fetched order is kept
compareStartNone(a, b) == 0

\* the comparator of .sort()
compareStart(a, b) ==
    LET da == safeParse(Prop(a, K_start))
        db == safeParse(Prop(b, K_start))
    IN IF da # NullDate /\ db # NullDate THEN da - db
       ELSE IF da # NullDate THEN 0 - 1
       ELSE IF db # NullDate THEN 1
       ELSE 0

RECURSIVE InsertItem(_, _)
InsertItem(sorted, x) ==
    IF sorted = <<>> THEN <<x>>
    ELSE IF compareStart(Head(sorted), x) > 0 THEN <<x>> \o sorted
    ELSE <<Head(sorted)>> \o InsertItem(Tail(sorted), x)

RECURSIVE sortByStart(_)
\* Array.prototype.sort(compare), which is stable
sortByStart(rows) ==
    IF rows = <<>> THEN <<>>
    ELSE InsertItem(sortByStart(SubSeq(rows, 1, Len(rows) - 1)), rows[Len(rows)])

\* the rows the mount effect hands to setItems
Normalize(payload, outagesPayload, now) ==
    LET hotOfferings == hotOfferingsOf(outagesPayload)
        raw == Items(coerceArray(payload))
        mapped == [i \in 1..Len(raw) |-> ChangeItem(raw[i], hotOfferings)]
    IN sortByStart(FilterItems(mapped, now))

\* const isHot = Boolean(ch.__isHot)
isHot(ch) == Truthy(Prop(ch, K_isHot))

-----------------------------------------------------------------------------
(* ScheduledChangesPanel: the component *)

MaxTicks == 2

DateStr(day, sep, slot) == NumToStr(day) \o <<sep>> \o NumToStr(slot)

\* Rows /api/changes/today can answer with.
RowScheduled ==
    JObj(<< <<K_number, JStr(<<"C", "1">>)>>, <<K_offering, JStr(<<"P", "a", "y">>)>>,
            <<K_state, JStr(<<"S", "c", "h", "e", "d", "u", "l", "e", "d">>)>>,
            <<K_start, JStr(DateStr(Today, " ", 1))>> >>)
RowImplement ==
    JObj(<< <<K_number, JStr(<<"C", "2">>)>>, <<K_service_offering, JStr(<<" ", "p", "a", "y", " ">>)>>,
            <<K_state, JObj(<< <<K_display_value, JStr(<<"I", "m", "p", "l", "e", "m", "e", "n", "t">>)>> >>)>>,
            <<K_start, JStr(DateStr(Today, "T", 0))>>,
            <<K_end, JStr(DateStr(Today, "T", 2))>> >>)
RowCanceled ==
    JObj(<< <<K_number, JStr(<<"C", "3">>)>>, <<K_offering, JStr(<<"D", "b">>)>>,
            <<K_state, JStr(<<"C", "a", "n", "c", "e", "l", "e", "d">>)>>,
            <<K_start, JStr(DateStr(Today, "T", 0))>> >>)
RowFlagged ==
    JObj(<< <<K_number, JStr(<<"C", "4">>)>>, <<K_offering, JStr(<<"D", "b">>)>>,
            <<K_state, JStr(<<"S", "c", "h", "e", "d", "u", "l", "e", "d">>)>>, <<K_isHot, JBool(TRUE)>> >>)
RowTomorrow ==
    JObj(<< <<K_number, JStr(<<"C", "5">>)>>, <<K_offering, JStr(<<"P", "a", "y">>)>>,
            <<K_state, JStr(<<"R", "e", "v", "i", "e", "w">>)>>,
            <<K_start, JStr(DateStr(Today + 1, "T", 0))>> >>)
RowNew ==
    JObj(<< <<K_number, JStr(<<"C", "6">>)>>, <<K_offering, JStr(<<>>)>>,
            <<K_state, JStr(<<"N", "e", "w">>)>> >>)
RowYesterday ==
    JObj(<< <<K_number, JStr(<<"C", "7">>)>>, <<K_offering, JStr(<<"A", "p", "i">>)>>,
            <<K_state, JStr(<<"S", "c", "h", "e", "d", "u", "l", "e", "d">>)>>,
            <<K_start, JStr(DateStr(Today - 1, "T", 2))>>,
            <<K_end, JStr(DateStr(Today - 1, "T", 2))>> >>)
RowStartDate ==
    JObj(<< <<K_number, JStr(<<"C", "8">>)>>, <<K_offering, JStr(<<"P", "a", "y">>)>>,
            <<K_state, JStr(<<"S", "c", "h", "e", "d", "u", "l", "e", "d">>)>>, <<K_start, JNull>>,
            <<K_start_date, JStr(DateStr(Today, "T", 0))>> >>)

RowReviewCancelled ==
    JObj(<< <<K_number, JStr(<<"C", "9">>)>>, <<K_offering, JStr(<<"P", "a", "y">>)>>,
            <<K_state, JStr(<<"R", "e", "v", "i", "e", "w", " ", "C", "a", "n", "c", "e", "l", "l", "e", "d">>)>>,
            <<K_start, JStr(DateStr(Today, "T", 0))>> >>)
RowStatusOnly ==
    JObj(<< <<K_number, JStr(<<"C", "1", "0">>)>>, <<K_offering, JStr(<<"P", "a", "y">>)>>,
            <<K_status, JStr(<<"C", "a", "n", "c", "e", "l", "e", "d">>)>>,
            <<K_start, JStr(DateStr(Today, "T", 1))>> >>)
RowEndOnly ==
    JObj(<< <<K_number, JStr(<<"C", "1", "1">>)>>, <<K_offering, JStr(<<"A", "p", "i">>)>>,
            <<K_state, JStr(<<"S", "c", "h", "e", "d", "u", "l", "e", "d">>)>>,
            <<K_end, JStr(DateStr(Today, " ", 0))>> >>)
RowEndedYesterday ==
    JObj(<< <<K_number, JStr(<<"C", "1", "2">>)>>, <<K_offering, JStr(<<"A", "p", "i">>)>>,
            <<K_status, JStr(<<"I", "m", "p", "l", "e", "m", "e", "n", "t">>)>>,
            <<K_end_date, JStr(DateStr(Today - 1, "T", 2))>> >>)
RowBadStart ==
    JObj(<< <<K_number, JStr(<<"C", "1", "3">>)>>, <<K_offering, JStr(<<"D", "b">>)>>,
            <<K_state, JStr(<<"s", "c", "h", "e", "d", "u", "l", "e", "d">>)>>,
            <<K_start, JStr(<<"s", "o", "o", "n">>)>>,
            <<K_end, JStr(DateStr(Today + 1, "T", 0))>> >>)

ChangePayloads ==
    { JArr(<<RowScheduled, RowImplement, RowCanceled>>),
      JObj(<< <<K_result, JArr(<<RowFlagged, RowTomorrow, RowScheduled>>)>> >>),
      JObj(<< <<K_data, JArr(<<RowStartDate, RowNew, RowImplement>>)>> >>),
      JArr(<<RowFlagged, RowYesterday, RowScheduled, RowImplement>>),
      JArr(<<RowBadStart, RowReviewCancelled, RowStatusOnly, RowEndOnly, RowEndedYesterday,
             RowScheduled>>),
      JArr(<<>>) }

\* Bodies /api/outages/active can answer with.
OutagePayloads ==
    { JObj(<< <<K_data, JArr(<< JObj(<< <<K_offering, JStr(<<" ", "P", "A", "Y", " ">>)>> >>) >>)>> >>),
      JObj(<< <<K_data, JArr(<< JObj(<< <<K_id, JStr(<<"o", "1">>)>> >>) >>)>> >>),
      JArr(<< JObj(<< <<K_service_offering,
                        JObj(<< <<K_display_value, JStr(<<"d", "b">>)>> >>)>> >>) >>),
      JObj(<< <<K_data, JArr(<<>>)>> >>) }

PanelClock == { At(Today, 0), At(Today, SlotsPerDay - 1) }

\* A poll cycle: all is the state of its Promise.all, changes and outages the
\* responses it resolved with, "ok" a 2xx response and "bad" any other.
Cycle(effect) ==
    [effect |-> effect, all |-> "pending", changes |-> "none", outages |-> "none"]

Responses == {"ok", "bad"}

PanelInit ==
    /\ changesBody \in ChangePayloads
    /\ outagesBody \in OutagePayloads
    /\ pnow \in PanelClock
    /\ mounted = FALSE
    /\ refreshTick = 0
    /\ items = <<>>
    /\ loading = TRUE
    /\ errorMsg = "null"
    /\ cycles = <<>>
    /\ job = 0
    /\ appliedBy = 0

\* The first commit: both effects run, the mount effect first.
Mount ==
    /\ ~mounted
    /\ mounted' = TRUE
    /\ cycles' = <<Cycle("mount"), Cycle("tick")>>
    /\ loading' = TRUE
    /\ errorMsg' = "null"
    /\ appliedBy' = 2
    /\ UNCHANGED <<refreshTick, items, job, changesBody, outagesBody, pnow>>
    /\ UNCHANGED panelOthers

\* Both fetches of the mount effect have resolved: the rest of the try block
\* and the finally run.
MountResolves(chg, out) ==
    /\ mounted /\ job = 0
    /\ cycles[1].all = "pending"
    /\ cycles' = [cycles EXCEPT ![1] = [@ EXCEPT !.all = "resolved", !.changes = chg,
                                                 !.outages = out]]
    /\ IF chg = "bad"
       THEN errorMsg' = "API returned 500" /\ items' = <<>>
       ELSE /\ items' = Normalize(changesBody,
                            IF out = "ok" THEN outagesBody
                            ELSE JObj(<< <<K_data, JArr(<<>>)>> >>),
                            pnow)
            /\ UNCHANGED errorMsg
    /\ loading' = FALSE
    /\ appliedBy' = 1
    /\ UNCHANGED <<mounted, refreshTick, job, changesBody, outagesBody, pnow>>
    /\ UNCHANGED panelOthers

\* A fetch of the mount effect has rejected: catch and finally run.
MountRejects ==
    /\ mounted /\ job = 0
    /\ cycles[1].all = "pending"
    /\ cycles' = [cycles EXCEPT ![1].all = "rejected"]
    /\ errorMsg' = "Failed to load changes."
    /\ items' = <<>>
    /\ loading' = FALSE
    /\ appliedBy' = 1
    /\ UNCHANGED <<mounted, refreshTick, job, changesBody, outagesBody, pnow>>
    /\ UNCHANGED panelOthers

\* Both fetches of a refreshTick effect have resolved, with the status res
\* ("ok" for 2xx): the effect reads neither response, nothing is parsed, the
\* finally runs.
TickResolves(c, res) ==
    /\ mounted /\ job = 0
    /\ c \in 2..Len(cycles)
    /\ cycles[c].all = "pending"
    /\ cycles' = [cycles EXCEPT ![c] = [@ EXCEPT !.all = "resolved", !.changes = res,
                                                 !.outages = res]]
    /\ loading' = FALSE
    /\ appliedBy' = c
    /\ UNCHANGED <<mounted, refreshTick, items, errorMsg, job, changesBody, outagesBody, pnow>>
    /\ UNCHANGED panelOthers

\* A fetch of a refreshTick effect has rejected for another reason than an
\* abort: catch and finally run.
TickRejects(c) ==
    /\ mounted /\ job = 0
    /\ c \in 2..Len(cycles)
    /\ cycles[c].all = "pending"
    /\ cycles' = [cycles EXCEPT ![c].all = "rejected"]
    /\ errorMsg' = "Failed to load changes."
    /\ items' = <<>>
    /\ loading' = FALSE
    /\ appliedBy' = c
    /\ UNCHANGED <<mounted, refreshTick, job, changesBody, outagesBody, pnow>>
    /\ UNCHANGED panelOthers

\* refreshTick changes: the cleanup of the last refreshTick effect aborts its
\* controller, which rejects its pending fetches with an AbortError, then the
\* effect runs again.  The aborted cycle's catch and finally are a job that
\* runs once this commit is over.
TickChanged ==
    /\ mounted /\ job = 0
    /\ refreshTick < MaxTicks
    /\ refreshTick' = refreshTick + 1
    /\ LET prev == Len(cycles) IN
       IF cycles[prev].all = "pending"
       THEN /\ cycles' = Append([cycles EXCEPT ![prev].all = "aborted"], Cycle("tick"))
            /\ job' = prev
       ELSE /\ cycles' = Append(cycles, Cycle("tick"))
            /\ job' = 0
    /\ loading' = TRUE
    /\ errorMsg' = "null"
    /\ appliedBy' = Len(cycles) + 1
    /\ UNCHANGED <<mounted, items, changesBody, outagesBody, pnow>>
    /\ UNCHANGED panelOthers

\* The aborted cycle resumes: catch skips an AbortError, finally runs.
AbortSettles ==
    /\ job # 0
    /\ loading' = FALSE
    /\ appliedBy' = job
    /\ job' = 0
    /\ UNCHANGED <<mounted, refreshTick, items, errorMsg, cycles, changesBody, outagesBody,
                   pnow>>
    /\ UNCHANGED panelOthers

PanelNext ==
    \/ Mount
    \/ \E chg \in Responses, out \in Responses : MountResolves(chg, out)
    \/ MountRejects
    \/ \E c \in 2..(MaxTicks + 2), res \in Responses : TickResolves(c, res)
    \/ \E c \in 2..(MaxTicks + 2) : TickRejects(c)
    \/ TickChanged
    \/ AbortSettles

-----------------------------------------------------------------------------
(* Claims about the scheduled-changes panel *)

Newest == Len(cycles)

InFlight(cy) == cy.all = "pending"

\* C5: once a refresh has started a newer poll cycle, no older cycle has a
\* request in flight (they were cancelled) and the last write to the panel
\* state (items, error or loading flag) was made by the newest cycle, never by
\* a stale one.
C5_StaleCycleDiscarded ==
    refreshTick >= 1 =>
        /\ \A c \in 1..(Newest - 1) : ~InFlight(cycles[c])
        /\ appliedBy = Newest

\* the mount effect has handed a normalization to setItems
Normalized ==
    /\ mounted
    /\ cycles[1].all = "resolved"
    /\ cycles[1].changes = "ok"

\* the active outages fetched in the pass
ActiveOutages ==
    IF cycles[1].outages = "ok"
    THEN Items(coerceArray(Nc(Prop(outagesBody, K_data), outagesBody)))
    ELSE <<>>

Joined(item) ==
    /\ OfferingOf(item) # <<>>
    /\ \E i \in 1..Len(ActiveOutages) :
          toLowerCase(OfferingOf(ActiveOutages[i])) = toLowerCase(OfferingOf(item))

\* C6: after a normalization pass a displayed change is hot exactly when its
\* trimmed, lower-cased offering is non-empty and equals that of an outage of
\* the list fetched in the same pass; the payload's own flag plays no part.
C6_HotIffJoined ==
    Normalized => \A i \in 1..Len(items) : isHot(items[i]) <=> Joined(items[i])


\* the changes of the fetched payload as the pass maps them, before its filters
Candidates ==
    LET raw == Items(coerceArray(changesBody))
        outagesPayload == IF cycles[1].outages = "ok" THEN outagesBody
                          ELSE JObj(<< <<K_data, JArr(<<>>)>> >>)
    IN [i \in 1..Len(raw) |-> ChangeItem(raw[i], hotOfferingsOf(outagesPayload))]

IsDisplayed(item) == \E j \in 1..Len(items) : items[j] = item

\* the text of a state as the panel shows it, lower-cased
StateText(state) == toLowerCase(asText(state))

CancelledMarkers == {<<"c", "a", "n", "c", "e", "l", "e", "d">>, <<"c", "a", "n", "c", "e", "l", "l", "e", "d">>}
AllowedWords == {<<"s", "c", "h", "e", "d", "u", "l", "e", "d">>, <<"i", "m", "p", "l", "e", "m", "e", "n", "t">>, <<"r", "e", "v", "i", "e", "w">>}

HasCancelledMarker(state) == \E w \in CancelledMarkers : includes(StateText(state), w)
HasAllowedWord(state) == \E w \in AllowedWords : includes(StateText(state), w)

\* the state of a raw row: its state, else its status
RowState(row) == Nc(Prop(row, K_state), Nc(Prop(row, K_status), JStr(<<>>)))

\* C23: every displayed change has a state whose text holds no cancelled
\* marker and at least one of the words scheduled, implement, review, case
\* aside; a change with a cancelled state is not displayed, whatever its
\* offering or dates.
C23_DisplayedStatesAllowed ==
    Normalized =>
        /\ \A i \in 1..Len(items) :
              /\ ~HasCancelledMarker(Prop(items[i], K_state))
              /\ HasAllowedWord(Prop(items[i], K_state))
        /\ \A i \in 1..Len(Candidates) :
              HasCancelledMarker(RowState(Items(coerceArray(changesBody))[i]))
                  => ~IsDisplayed(Candidates[i])

\* C23 happens: the pass displayed changes and dropped one whose state holds a
\* cancelled marker next to an allowed word, and one cancelled by its status.
C23_Witness ==
    /\ Normalized /\ appliedBy = 1 /\ items # <<>>
    /\ \E i \in 1..Len(Candidates) :
          /\ HasCancelledMarker(Prop(Candidates[i], K_state))
          /\ HasAllowedWord(Prop(Candidates[i], K_state))
          /\ ~IsDisplayed(Candidates[i])
    /\ \E i \in 1..Len(Candidates) :
          /\ ~HasKey(Items(coerceArray(changesBody))[i], K_state)
          /\ HasCancelledMarker(Prop(Candidates[i], K_state))
          /\ ~IsDisplayed(Candidates[i])

PassesStateFilter(item) ==
    ~HasCancelledMarker(Prop(item, K_state)) /\ HasAllowedWord(Prop(item, K_state))

StartOf(item) == safeParse(Prop(item, K_start))
EndOf(item) == safeParse(Prop(item, K_end))
StartOfToday == At(DayOf(pnow), 0)
EndOfToday == At(DayOf(pnow), SlotsPerDay - 1)

\* the rule of the today window
WindowRule(item) ==
    \/ StartOf(item) # NullDate /\ EndOf(item) # NullDate
       /\ StartOf(item) <= EndOfToday /\ EndOf(item) >= StartOfToday
    \/ StartOf(item) # NullDate /\ EndOf(item) = NullDate /\ StartOf(item) <= EndOfToday
    \/ StartOf(item) = NullDate /\ EndOf(item) # NullDate /\ EndOf(item) >= StartOfToday
    \/ StartOf(item) = NullDate /\ EndOf(item) = NullDate

\* C24: a change that passes the state filter is retained by the today-window
\* filter exactly when both bounds are present and it overlaps today, or only
\* the start is present and is not after the end of today, or only the end is
\* present and is not before the start of today, or no bound is present.
C24_TodayWindow ==
    (Normalized /\ appliedBy = 1) =>
        \A i \in 1..Len(Candidates) :
            PassesStateFilter(Candidates[i])
                => (IsDisplayed(Candidates[i]) <=> WindowRule(Candidates[i]))

\* C24 happens: the pass kept a change with both bounds and one without any,
\* and dropped one that passes the state filter.
C24_Witness ==
    /\ Normalized /\ appliedBy = 1
    /\ \E i \in 1..Len(items) : StartOf(items[i]) # NullDate /\ EndOf(items[i]) # NullDate
    /\ \E i \in 1..Len(items) : StartOf(items[i]) = NullDate /\ EndOf(items[i]) = NullDate
    /\ \E i \in 1..Len(Candidates) :
          PassesStateFilter(Candidates[i]) /\ ~IsDisplayed(Candidates[i])

\* C24 happens for one bound: the pass kept a change that has an end only, and
\* dropped one whose only bound, the end, is before today.
C24_WitnessOneBound ==
    /\ Normalized /\ appliedBy = 1
    /\ \E i \in 1..Len(items) : StartOf(items[i]) = NullDate /\ EndOf(items[i]) # NullDate
    /\ \E i \in 1..Len(Candidates) :
          /\ PassesStateFilter(Candidates[i]) /\ ~IsDisplayed(Candidates[i])
          /\ StartOf(Candidates[i]) = NullDate /\ EndOf(Candidates[i]) # NullDate

\* C25: the displayed list is sorted ascending by start with the changes
\* lacking a parseable start last: for any two displayed changes a before b,
\* both have a start and start(a) <= start(b), or b has no start.
C25_SortedByStartNullsLast ==
    Normalized =>
        \A i, j \in 1..Len(items) :
            i < j =>
                \/ /\ StartOf(items[i]) # NullDate /\ StartOf(items[j]) # NullDate
                   /\ StartOf(items[i]) <= StartOf(items[j])
                \/ StartOf(items[j]) = NullDate

\* C25 happens: the pass displayed, in another order than fetched, changes with
\* different starts and after them a change without a parseable start.
C25_Witness ==
    /\ Normalized /\ appliedBy = 1 /\ Len(items) >= 3
    /\ StartOf(items[1]) # NullDate /\ StartOf(items[2]) # NullDate
    /\ StartOf(items[1]) < StartOf(items[2])
    /\ StartOf(items[Len(items)]) = NullDate
    /\ items # FilterItems(Candidates, pnow)

\* every cycle has settled and its continuation has run
Settled == job = 0 /\ \A c \in 1..Len(cycles) : cycles[c].all # "pending"

\* C28: once a refresh cycle that was not abandoned and whose fetches
\* succeeded has completed, the displayed list is exactly the normalization of
\* that cycle's responses.
C28_RefreshReplacesItems ==
    (/\ mounted /\ Settled /\ refreshTick >= 1
     /\ cycles[Newest].all = "resolved" /\ cycles[Newest].changes = "ok"
     /\ appliedBy = Newest)
        => items = Normalize(changesBody, outagesBody, pnow)

-----------------------------------------------------------------------------
(* The ServiceNow and SolarWinds feeds: /api/outages/active,                *)
(* /api/outages/history, /api/servicenow/tickets, /api/monitoring/alerts    *)

K_systemName     == <<"s", "y", "s", "t", "e", "m", "N", "a", "m", "e">>
K_impactLevel    == <<"i", "m", "p", "a", "c", "t", "L", "e", "v", "e", "l">>
K_startTime      == <<"s", "t", "a", "r", "t", "T", "i", "m", "e">>
K_eta            == <<"e", "t", "a">>
K_teamsBridgeUrl == <<"t", "e", "a", "m", "s", "B", "r", "i", "d", "g", "e", "U", "r", "l">>
K_affectedCI     == <<"a", "f", "f", "e", "c", "t", "e", "d", "C", "I">>
K_assignedTeam   == <<"a", "s", "s", "i", "g", "n", "e", "d", "T", "e", "a", "m">>
K_ticketUrl      == <<"t", "i", "c", "k", "e", "t", "U", "r", "l">>
K_affectedSystem == <<"a", "f", "f", "e", "c", "t", "e", "d", "S", "y", "s", "t", "e", "m">>
K_timestamp      == <<"t", "i", "m", "e", "s", "t", "a", "m", "p">>
K_severity       == <<"s", "e", "v", "e", "r", "i", "t", "y">>
K_validated      == <<"v", "a", "l", "i", "d", "a", "t", "e", "d">>
K_results        == <<"r", "e", "s", "u", "l", "t", "s">>
K_cmdb_ci        == <<"c", "m", "d", "b", "_", "c", "i">>
K_begin          == <<"b", "e", "g", "i", "n">>
K_bridge         == <<"u", "_", "t", "e", "a", "m", "s", "_", "b", "r", "i", "d", "g", "e", "_", "u", "r", "l">>
K_assignment_group   == <<"a", "s", "s", "i", "g", "n", "m", "e", "n", "t", "_", "g", "r", "o", "u", "p">>
K_AlertObjectID      == <<"A", "l", "e", "r", "t", "O", "b", "j", "e", "c", "t", "I", "D">>
K_EntityCaption      == <<"E", "n", "t", "i", "t", "y", "C", "a", "p", "t", "i", "o", "n">>
K_EntityDetailsUrl   == <<"E", "n", "t", "i", "t", "y", "D", "e", "t", "a", "i", "l", "s", "U", "r", "l">>
K_TriggerTimeStamp   == <<"T", "r", "i", "g", "g", "e", "r", "T", "i", "m", "e", "S", "t", "a", "m", "p">>
K_Acknowledged       == <<"A", "c", "k", "n", "o", "w", "l", "e", "d", "g", "e", "d">>
K_Severity           == <<"S", "e", "v", "e", "r", "i", "t", "y">>

\* ServiceNowConfigEntity.initialState.fieldMapping
DefaultFieldMapping ==
    [systemName |-> <<"c", "m", "d", "b", "_", "c", "i", ".", "n", "a", "m", "e">>, impactLevel |-> <<"t", "y", "p", "e">>, startTime |-> <<"b", "e", "g", "i", "n">>,
     eta |-> <<"e", "n", "d">>, description |-> <<"s", "h", "o", "r", "t", "_", "d", "e", "s", "c", "r", "i", "p", "t", "i", "o", "n">>,
     teamsBridgeUrl |-> <<"u", "_", "t", "e", "a", "m", "s", "_", "b", "r", "i", "d", "g", "e", "_", "u", "r", "l">>]

\* The field mappings of a config: the default, and a saved one that maps the
\* impact and the end time to custom columns.
FieldMappings ==
    { DefaultFieldMapping,
      [DefaultFieldMapping EXCEPT !.impactLevel = <<"u", "_", "t", "y", "p", "e">>, !.eta = <<"u", "_", "e", "n", "d">>] }

\* const { outageTable, fieldMapping, impactLevelMapping } = config
fieldMapping == ffieldMapping

\* ServiceNowConfigEntity.initialState.ticketFieldMapping
ticketFieldMapping ==
    [id |-> <<"n", "u", "m", "b", "e", "r">>, summary |-> <<"s", "h", "o", "r", "t", "_", "d", "e", "s", "c", "r", "i", "p", "t", "i", "o", "n">>, affectedCI |-> <<"c", "m", "d", "b", "_", "c", "i", ".", "n", "a", "m", "e">>,
     status |-> <<"s", "t", "a", "t", "e">>, assignedTeam |-> <<"a", "s", "s", "i", "g", "n", "m", "e", "n", "t", "_", "g", "r", "o", "u", "p", ".", "n", "a", "m", "e">>,
     priority |-> <<"p", "r", "i", "o", "r", "i", "t", "y">>]

ticketTable == <<"i", "n", "c", "i", "d", "e", "n", "t">>

\* getProperty(item, path) for a dotted path
GetPath(item, path) == getProperty(item, split(path, "."))

\* date.toISOString()
toISOString(t) == DateStr(DayOf(t), "T", t % SlotsPerDay)

\* the time value of a date string the worker's engine parses: the ISO form
\* <day>T<slot> and the form <day> <slot>
ParseStamp(s) ==
    IF IsStamp(s, "T") \/ IsStamp(s, " ")
    THEN LET k == CHOOSE i \in 1..Len(s) : s[i] \in {"T", " "}
             slot == StrToNum(SubSeq(s, k + 1, Len(s)))
         IN IF slot < SlotsPerDay THEN At(StrToNum(SubSeq(s, 1, k - 1)), slot)
            ELSE NullDate
    ELSE NullDate

\* new Date(value) in the worker, NullDate standing for an invalid date: a
\* number is the time value, true is 1, false and null are 0, anything else
\* is parsed as a string
DateOf(v) ==
    CASE v.t = "number"    -> v.n
      [] v.t = "boolean"   -> IF v.b THEN 1 ELSE 0
      [] v.t = "null"      -> 0
      [] v.t = "undefined" -> NullDate
      [] OTHER             -> ParseStamp(String(v))

\* safeParseDate without the validity test: an invalid date has no ISO string
safeParseDateUnchecked(dateStr, now) ==
    IF ~Truthy(dateStr) THEN toISOString(now)
    ELSE IF DateOf(dateStr) = NullDate THEN <<"R", "a", "n", "g", "e", "E", "r", "r", "o", "r">>
    ELSE toISOString(DateOf(dateStr))

safeParseDate(dateStr, now) ==
    IF ~Truthy(dateStr) THEN toISOString(now)
    ELSE LET date == DateOf(dateStr) IN
         IF date = NullDate THEN toISOString(now) ELSE toISOString(date)

\* dm.get(key)
MapGet(dm, key) == IF MapHas(dm, key) THEN dm[MapIndex(dm, key)].row ELSE JUndef

\* item.servicenowValue.toLowerCase() throws for an entry without a string
\* servicenowValue
MappingThrows(impactLevelMapping) ==
    \E i \in 1..Len(impactLevelMapping.o) :
        Prop(impactLevelMapping.o[i][2], K_servicenowValue).t # "string"

RECURSIVE MapOfEntries(_, _)
\* new Map(entries): a later entry with the same key replaces the value
MapOfEntries(dm, entries) ==
    IF entries = <<>> THEN dm
    ELSE MapOfEntries(
            MapSet(dm, toLowerCase(Prop(Head(entries), K_servicenowValue).s),
                   Prop(Head(entries), K_dashboardValue)),
            Tail(entries))

\* lines 292, 569: impactMapping
impactMappingOf(impactLevelMapping) == MapOfEntries(<<>>, Items(impactLevelMapping))

\* lines 328, 601: servicenowImpact
servicenowImpactOf(rawImpact) == trim(toLowerCase(String(Or(rawImpact, JStr(<<>>)))))

\* lines 329, 602: mappedImpact
mappedImpactOf(impactMapping, rawImpact) ==
    Or(MapGet(impactMapping, servicenowImpactOf(rawImpact)), JStr(S_Degradation))

\* item.number of an item that is null or undefined throws
ItemThrows(item) == item.t \in {"null", "undefined"}

\* lines 338-346, 603-611: the canonical outage of a raw record
OutageOf(item, impactMapping, now) ==
    JObj(<<
        <<K_id, Or(Prop(item, K_number), Prop(item, K_sys_id))>>,
        <<K_systemName, Or(GetPath(item, fieldMapping.systemName), JStr(S_Unknown))>>,
        <<K_impactLevel, mappedImpactOf(impactMapping, GetPath(item, fieldMapping.impactLevel))>>,
        <<K_startTime, JStr(safeParseDate(GetPath(item, fieldMapping.startTime), now))>>,
        <<K_eta, JStr(safeParseDate(GetPath(item, fieldMapping.eta), now))>>,
        <<K_description, Or(GetPath(item, fieldMapping.description),
                            JStr(<<"N", "o", " ", "d", "e", "s", "c", "r", "i", "p", "t", "i", "o", "n", " ", "p", "r", "o", "v", "i", "d", "e", "d", ".">>))>>,
        <<K_teamsBridgeUrl, Or(GetPath(item, fieldMapping.teamsBridgeUrl), JNull)>>
    >>)

\* lines 488-495: the canonical ticket of a raw record
TicketOf(item, instanceUrl) ==
    JObj(<<
        <<K_id, Or(GetPath(item, ticketFieldMapping.id), JStr(<<"N", "/", "A">>))>>,
        <<K_summary, Or(GetPath(item, ticketFieldMapping.summary), JStr(<<"N", "o", " ", "s", "u", "m", "m", "a", "r", "y">>))>>,
        <<K_affectedCI, Or(GetPath(item, ticketFieldMapping.affectedCI), JStr(<<"N", "/", "A">>))>>,
        <<K_status, Or(GetPath(item, ticketFieldMapping.status), JStr(<<"N", "e", "w">>))>>,
        <<K_assignedTeam, Or(GetPath(item, ticketFieldMapping.assignedTeam),
                             JStr(<<"U", "n", "a", "s", "s", "i", "g", "n", "e", "d">>))>>,
        <<K_ticketUrl, JStr(instanceUrl \o <<"/", "n", "a", "v", "_", "t", "o", ".", "d", "o", "?", "u", "r", "i", "=">> \o ticketTable
                            \o <<".", "d", "o", "?", "s", "y", "s", "_", "i", "d", "=">> \o String(Prop(item, K_sys_id)))>>
    >>)

\* severityMap[item.Severity] || 'Info'
SeverityOf(v) ==
    LET key == String(v) IN
    IF key = <<"2">> THEN <<"C", "r", "i", "t", "i", "c", "a", "l">>
    ELSE IF key = <<"3">> THEN <<"W", "a", "r", "n", "i", "n", "g">>
    ELSE <<"I", "n", "f", "o">>

\* the callback of results.map throws: item is null, item.AlertObjectID has no
\* toString, or toISOString is called on an invalid date
AlertThrows(item) ==
    \/ ItemThrows(item)
    \/ Prop(item, K_AlertObjectID).t \in {"null", "undefined"}
    \/ DateOf(Prop(item, K_TriggerTimeStamp)) = NullDate

\* lines 427-434: the canonical alert of a raw record
AlertOf(item) ==
    JObj(<<
        <<K_id, JStr(String(Prop(item, K_AlertObjectID)))>>,
        <<K_type, Prop(item, K_EntityCaption)>>,
        <<K_affectedSystem, Or(Prop(item, K_EntityDetailsUrl), JStr(<<"N", "/", "A">>))>>,
        <<K_timestamp, JStr(toISOString(DateOf(Prop(item, K_TriggerTimeStamp))))>>,
        <<K_severity, JStr(SeverityOf(Prop(item, K_Severity)))>>,
        <<K_validated, Prop(item, K_Acknowledged)>>
    >>)

\* Raw records ServiceNow can answer with.
ItemFull ==
    JObj(<< <<K_number, JStr(<<"O", "U", "T", "1">>)>>, <<K_sys_id, JStr(<<"s", "1">>)>>,
            <<K_cmdb_ci, JObj(<< <<K_name, JStr(S_db)>> >>)>>,
            <<K_type, JStr(S_Outage)>>,
            <<K_begin, JStr(DateStr(Today - 1, " ", 1))>>,
            <<K_end, JStr(DateStr(Today + 1, "T", 0))>>,
            <<K_short_description, JStr(<<"d", "o", "w", "n">>)>>,
            <<K_state, JStr(<<"N", "e", "w">>)>>,
            <<K_assignment_group, JObj(<< <<K_name, JStr(<<"o", "p", "s">>)>> >>)>>,
            <<K_bridge, JStr(S_url)>> >>)
ItemEmpty == JObj(<<>>)
ItemBadDate ==
    JObj(<< <<K_number, JStr(<<"O", "U", "T", "2">>)>>, <<K_sys_id, JStr(<<"s", "2">>)>>,
            <<K_cmdb_ci, JObj(<< <<K_name, JStr(S_api)>> >>)>>,
            <<K_type, JStr(<<" ", "O", "U", "T", "A", "G", "E", " ">>)>>,
            <<K_begin, JStr(<<"s", "o", "o", "n">>)>>,
            <<K_end, JStr(DateStr(Today + 1, "T", 1))>>,
            <<K_short_description, JStr(<<"s", "l", "o", "w">>)>> >>)
ItemReference ==
    JObj(<< <<K_sys_id, JStr(<<"s", "3">>)>>,
            <<K_cmdb_ci, JStr(<<>>)>>,
            <<K_type, JObj(<< <<K_display_value, JStr(S_Degradation)>>,
                              <<K_value, JStr(<<"2">>)>> >>)>>,
            <<K_begin, JNum(0)>>,
            <<K_end, JNull>>,
            <<K_short_description, JObj(<< <<K_display_value, JStr(<<>>)>>,
                                           <<K_value, JStr(<<"f", "l", "a", "k", "y">>)>> >>)>> >>)
ItemPriority ==
    JObj(<< <<K_number, JStr(<<"O", "U", "T", "4">>)>>, <<K_sys_id, JStr(<<"s", "4">>)>>,
            <<K_cmdb_ci, JObj(<< <<K_name, JStr(S_db)>> >>)>>,
            <<K_type, JStr(<<"P", "1">>)>>,
            <<K_begin, JNum(At(Today, 0))>>,
            <<K_end, JStr(DateStr(Today, "T", 2))>>,
            <<K_short_description, JStr(<<"p", "1">>)>> >>)

\* The JSON a ServiceNow response body parses to; null for a body that is not
\* JSON.
ServiceNowBodies ==
    { JNull,
      JObj(<<>>),
      JObj(<< <<K_result, JArr(<<>>)>> >>),
      JObj(<< <<K_result, JArr(<<ItemFull, ItemEmpty>>)>> >>),
      JObj(<< <<K_result, JArr(<<ItemBadDate, ItemReference>>)>> >>),
      JObj(<< <<K_result, JArr(<<ItemPriority, ItemFull>>)>> >>),
      JObj(<< <<K_result, JArr(<<ItemFull, JNull>>)>> >>) }

\* Raw records SolarWinds can answer with.
AlertFull ==
    JObj(<< <<K_AlertObjectID, JNum(7)>>, <<K_EntityCaption, JStr(<<"N", "o", "d", "e">>)>>,
            <<K_EntityDetailsUrl, JStr(S_url)>>,
            <<K_TriggerTimeStamp, JStr(DateStr(Today, "T", 0))>>,
            <<K_Acknowledged, JBool(FALSE)>>, <<K_Severity, JNum(2)>> >>)
AlertBadDate ==
    JObj(<< <<K_AlertObjectID, JNum(8)>>, <<K_EntityCaption, JStr(<<"D", "i", "s", "k">>)>>,
            <<K_TriggerTimeStamp, JStr(<<"s", "o", "o", "n">>)>>,
            <<K_Acknowledged, JBool(TRUE)>>, <<K_Severity, JNum(3)>> >>)
AlertNoDate ==
    JObj(<< <<K_AlertObjectID, JNum(9)>>, <<K_EntityCaption, JStr(<<"C", "p", "u">>)>>,
            <<K_Acknowledged, JBool(FALSE)>>, <<K_Severity, JNum(5)>> >>)

SolarWindsBodies ==
    { JNull,
      JObj(<<>>),
      JObj(<< <<K_results, JArr(<<>>)>> >>),
      JObj(<< <<K_results, JArr(<<AlertFull>>)>> >>),
      JObj(<< <<K_results, JArr(<<AlertFull, AlertBadDate>>)>> >>),
      JObj(<< <<K_results, JArr(<<AlertNoDate, AlertFull>>)>> >>) }

\* What a fetch of the upstream comes to: it rejects ("failed"), or resolves
\* with a status that is ok or not and a body.
Upstream(kind, ok, data) == [kind |-> kind, ok |-> ok, data |-> data]
NoUpstream == Upstream("none", FALSE, JNull)
UpstreamOf(bodies) ==
    {Upstream("failed", FALSE, JNull), Upstream("answered", FALSE, JObj(<<>>))}
    \cup {Upstream("answered", TRUE, data) : data \in bodies}

\* The impact mappings of the saved configs: the default one, a site's own
\* tokens, a token entered twice, a token entered with a trailing blank, a
\* canonical value outside the vocabulary, an entry without servicenowValue,
\* no entry at all.
FeedMappings ==
    { DefaultImpactLevelMapping,
      JArr(<< MappingItem(<<"P", "1">>, S_Outage) >>),
      JArr(<< MappingItem(S_outage, S_Outage), MappingItem(<<"O", "U", "T", "A", "G", "E">>, S_Degradation) >>),
      JArr(<< MappingItem(<<"O", "u", "t", "a", "g", "e", " ">>, S_Outage) >>),
      JArr(<< MappingItem(S_outage, <<"C", "r", "i", "t", "i", "c", "a", "l">>) >>),
      JArr(<< JObj(<< <<K_dashboardValue, JStr(S_Outage)>> >>) >>),
      JArr(<<>>) }

\* The configs the handlers read: getState of the store before a save and
\* after the save of a body.
FeedConfigs ==
    {getState(Absent)}
    \cup {getState(Config(TRUE, S_url, m)) : m \in FeedMappings}
    \cup {getState(Config(TRUE, <<>>, JNull)), getState(Config(FALSE, S_url, JNull))}

\* SolarWindsConfigEntity: initialState, and a saved config
SolarWindsConfigs == { [enabled |-> FALSE, apiUrl |-> <<>>], [enabled |-> TRUE, apiUrl |-> S_url] }

Answer(route, kind, data) == [route |-> route, kind |-> kind, data |-> data]
NoAnswer == Answer("none", "none", JNull)

\* ok(c, data), bad(c, message), and a response with status 500
Ok(route, data) == Answer(route, "ok", data)
Bad(route) == Answer(route, "bad", JNull)
Error500(route) == Answer(route, "error", JNull)

\* data.result.map(callback) throws: result has no map, or the callback throws
ResultThrows(result) ==
    \/ ~IsArray(result)
    \/ \E i \in 1..Len(result.o) : ItemThrows(result.o[i][2])

OutagesOf(result, impactMapping, now) ==
    JArr([i \in 1..Len(result.o) |-> OutageOf(result.o[i][2], impactMapping, now)])

\* no request was sent upstream
NoQuery == <<>>

\* format(date, 'yyyy-MM-dd HH:mm:ss')
formatStamp(t) == DateStr(DayOf(t), " ", t % SlotsPerDay)

\* line 295
ActiveQuery == <<"a", "c", "t", "i", "v", "e", "=", "t", "r", "u", "e", "^", "e", "n", "d", "I", "S", "E", "M", "P", "T", "Y">>

\* lines 574-576
HistoryQuery(now) ==
    LET sevenDaysAgo == formatStamp(subDays(now, 7))
        typeField == fieldMapping.impactLevel
    IN <<"e", "n", "d", ">", "=">> \o sevenDaysAgo \o <<"^">> \o typeField \o <<"I", "N", " ", "o", "u", "t", "a", "g", "e", ",", "d", "e", "g", "r", "a", "d", "a", "t", "i", "o", "n">>

\* lines 464-466
TicketsQuery ==
    LET baseQuery == <<"s", "t", "a", "t", "e", "N", "O", "T", " ", "I", "N", " ", "6", ",", "7", ",", "8", "^", "O", "R", "D", "E", "R", "B", "Y", "D", "E", "S", "C", "s", "y", "s", "_", "u", "p", "d", "a", "t", "e", "d", "_", "o", "n">>
        priorityQuery == <<"^">> \o ticketFieldMapping.priority \o <<"=", "1">>
    IN baseQuery \o priorityQuery

\* line 400
AlertsQuery == <<"S", "E", "L", "E", "C", "T", " ", ".", ".", ".", " ", "F", "R", "O", "M", " ", "O", "r", "i", "o", "n", ".", "A", "l", "e", "r", "t", "A", "c", "t", "i", "v", "e", " ", "O", "R", "D", "E", "R", " ", "B", "Y", " ", "T", "r", "i", "g", "g", "e", "r", "T", "i", "m", "e", "S", "t", "a", "m", "p", " ", "D", "E", "S", "C">>

\* the query of the request a ServiceNow handler sends, if it gets that far
QuerySent(config, secrets, mapped, query) ==
    IF ~config.enabled \/ config.instanceUrl = <<>> THEN NoQuery
    ELSE IF ~secrets THEN NoQuery
    ELSE IF mapped /\ MappingThrows(config.impactLevelMapping) THEN NoQuery
    ELSE query

\* lines 258-367
ActiveOutagesAnswer(config, secrets, up, now) ==
    IF ~config.enabled \/ config.instanceUrl = <<>> THEN Ok("active", JArr(<<>>))
    ELSE IF ~secrets THEN Ok("active", JArr(<<>>))
    ELSE IF MappingThrows(config.impactLevelMapping) THEN Error500("active")
    ELSE IF up.kind = "failed" THEN Error500("active")
    ELSE IF ~up.ok THEN Ok("active", JArr(<<>>))
    ELSE IF ~Truthy(up.data) \/ ~Truthy(Prop(up.data, K_result)) THEN Ok("active", JArr(<<>>))
    ELSE IF ResultThrows(Prop(up.data, K_result)) THEN Error500("active")
    ELSE Ok("active", OutagesOf(Prop(up.data, K_result),
                                impactMappingOf(config.impactLevelMapping), now))

\* lines 552-621; the impact Map is built before the try block
OutageHistoryAnswer(config, secrets, up, now) ==
    IF ~config.enabled \/ config.instanceUrl = <<>> THEN Bad("history")
    ELSE IF ~secrets THEN Bad("history")
    ELSE IF MappingThrows(config.impactLevelMapping) THEN Error500("history")
    ELSE IF up.kind = "failed" THEN Bad("history")
    ELSE IF ~up.ok THEN Bad("history")
    ELSE IF ~Truthy(up.data) \/ ~Truthy(Prop(up.data, K_result)) THEN Bad("history")
    ELSE IF ResultThrows(Prop(up.data, K_result)) THEN Bad("history")
    ELSE Ok("history", OutagesOf(Prop(up.data, K_result),
                                 impactMappingOf(config.impactLevelMapping), now))

\* lines 446-504
TicketsAnswer(config, secrets, up) ==
    IF ~config.enabled \/ config.instanceUrl = <<>> THEN Bad("tickets")
    ELSE IF ~secrets THEN Bad("tickets")
    ELSE IF up.kind = "failed" THEN Bad("tickets")
    ELSE IF ~up.ok THEN Bad("tickets")
    ELSE IF ~Truthy(up.data) \/ ~Truthy(Prop(up.data, K_result)) THEN Bad("tickets")
    ELSE IF ResultThrows(Prop(up.data, K_result)) THEN Bad("tickets")
    ELSE LET result == Prop(up.data, K_result) IN
         Ok("tickets", JArr([i \in 1..Len(result.o) |->
                               TicketOf(result.o[i][2], config.instanceUrl)]))

\* lines 384-443; a body that is not JSON rejects response.json(), a body
\* without results makes results.map throw
AlertsAnswer(config, secrets, up) ==
    IF ~config.enabled \/ config.apiUrl = <<>> THEN Bad("alerts")
    ELSE IF ~secrets THEN Bad("alerts")
    ELSE IF up.kind = "failed" THEN Bad("alerts")
    ELSE IF ~up.ok THEN Bad("alerts")
    ELSE IF ~IsObject(up.data) THEN Bad("alerts")
    ELSE LET results == Prop(up.data, K_results) IN
         IF ~IsArray(results) THEN Bad("alerts")
         ELSE IF \E i \in 1..Len(results.o) : AlertThrows(results.o[i][2]) THEN Bad("alerts")
         ELSE Ok("alerts", JArr([i \in 1..Len(results.o) |-> AlertOf(results.o[i][2])]))

FeedInit ==
    /\ fconfig \in FeedConfigs
    /\ swconfig \in SolarWindsConfigs
    /\ fenv \in [servicenow : BOOLEAN, solarwinds : BOOLEAN]
    /\ ffieldMapping \in FieldMappings
    /\ fnow \in Clock
    /\ fquery = NoQuery
    /\ upstream = NoUpstream
    /\ answer = NoAnswer

\* GET /api/outages/active
GetActiveOutages ==
    /\ \E up \in UpstreamOf(ServiceNowBodies) :
          /\ upstream' = up
          /\ answer' = ActiveOutagesAnswer(fconfig, fenv.servicenow, up, fnow)
    /\ fquery' = QuerySent(fconfig, fenv.servicenow, TRUE, ActiveQuery)
    /\ UNCHANGED <<fconfig, ffieldMapping, swconfig, fenv, fnow>>
    /\ UNCHANGED feedOthers

\* GET /api/outages/history
GetOutageHistory ==
    /\ \E up \in UpstreamOf(ServiceNowBodies) :
          /\ upstream' = up
          /\ answer' = OutageHistoryAnswer(fconfig, fenv.servicenow, up, fnow)
    /\ fquery' = QuerySent(fconfig, fenv.servicenow, TRUE, HistoryQuery(fnow))
    /\ UNCHANGED <<fconfig, ffieldMapping, swconfig, fenv, fnow>>
    /\ UNCHANGED feedOthers

\* GET /api/servicenow/tickets
GetTickets ==
    /\ \E up \in UpstreamOf(ServiceNowBodies) :
          /\ upstream' = up
          /\ answer' = TicketsAnswer(fconfig, fenv.servicenow, up)
    /\ fquery' = QuerySent(fconfig, fenv.servicenow, FALSE, TicketsQuery)
    /\ UNCHANGED <<fconfig, ffieldMapping, swconfig, fenv, fnow>>
    /\ UNCHANGED feedOthers

\* GET /api/monitoring/alerts
GetMonitoringAlerts ==
    /\ \E up \in UpstreamOf(SolarWindsBodies) :
          /\ upstream' = up
          /\ answer' = AlertsAnswer(swconfig, fenv.solarwinds, up)
    /\ fquery' = IF swconfig.enabled /\ swconfig.apiUrl # <<>> /\ fenv.solarwinds
                 THEN AlertsQuery ELSE NoQuery
    /\ UNCHANGED <<fconfig, ffieldMapping, swconfig, fenv, fnow>>
    /\ UNCHANGED feedOthers

FeedNext == GetActiveOutages \/ GetOutageHistory \/ GetTickets \/ GetMonitoringAlerts

-----------------------------------------------------------------------------
(* Claims about the feeds *)

\* the canonical records of the last answer
Records == IF answer.kind = "ok" THEN Items(answer.data) ELSE <<>>

OutageFeeds == {"active", "history"}

CanonicalImpacts == {JStr(S_Outage), JStr(S_Degradation)}

\* C12: every canonical outage of the active-outage feed and of the history
\* feed, for any raw record and any saved config, has an impactLevel that is
\* Outage or Degradation.
C12_ImpactLevelCanonical ==
    answer.route \in OutageFeeds =>
        \A i \in 1..Len(Records) : Prop(Records[i], K_impactLevel) \in CanonicalImpacts

\* The raw tokens a record may carry as its impact.
RawTokens ==
    { JUndef, JNull, JStr(<<>>), JStr(S_outage), JStr(S_Outage), JStr(<<" ", "O", "U", "T", "A", "G", "E", " ">>),
      JStr(<<"O", "u", "t", "a", "g", "e", " ">>), JStr(<<"P", "1">>), JStr(<<" ", "p", "1">>), JStr(S_degradation),
      JStr(S_Degradation), JStr(<<"C", "r", "i", "t", "i", "c", "a", "l">>), JStr(<<"u", "n", "k", "n", "o", "w", "n">>) }

\* a token, or the external value of an entry, trimmed and lower-cased
Folded(v) == IF v.t = "string" THEN toLowerCase(trim(v.s)) ELSE <<>>

\* the translation the handlers apply under the config they read
translate(x) == mappedImpactOf(impactMappingOf(fconfig.impactLevelMapping), x)

Entries == Items(fconfig.impactLevelMapping)

External(e) == Prop(e, K_servicenowValue)

\* the entries whose external value is the token, case and blanks aside
Matching(x) == {i \in 1..Len(Entries) : Folded(External(Entries[i])) = Folded(x)}

\* C13: translation is case- and whitespace-insensitive: two tokens equal after
\* trimming and lower-casing translate alike, a token that matches an entry
\* yields the entry's canonical value, and a null, empty or unknown token
\* yields Degradation.
C13_CaseAndBlankInsensitive ==
    ~MappingThrows(fconfig.impactLevelMapping) =>
        /\ \A x, y \in RawTokens : Folded(x) = Folded(y) => translate(x) = translate(y)
        /\ \A x \in RawTokens :
              IF Folded(x) # <<>> /\ Cardinality(Matching(x)) = 1
              THEN \A i \in Matching(x) : translate(x) = Prop(Entries[i], K_dashboardValue)
              ELSE Matching(x) = {} => translate(x) = JStr(S_Degradation)

\* the entries whose external value is the token but for its case
SameButCase(x) ==
    {i \in 1..Len(Entries) : toLowerCase(External(Entries[i]).s) = Folded(x)}

Min(set) == CHOOSE i \in set : \A j \in set : i <= j

\* C14: when several entries of the mapping have the same external value, case
\* aside, the token translates to the canonical value of the first of them in
\* list order.
C14_FirstDuplicateWins ==
    ~MappingThrows(fconfig.impactLevelMapping) =>
        \A x \in RawTokens :
            SameButCase(x) # {} =>
                translate(x) = Prop(Entries[Min(SameButCase(x))], K_dashboardValue)

\* C15: translation is idempotent, for every raw token and every mapping.
C15_TranslateIdempotent ==
    ~MappingThrows(fconfig.impactLevelMapping) =>
        \A x \in RawTokens : translate(translate(x)) = translate(x)

Populated(v) == v.t \notin {"null", "undefined"} /\ v # JStr(<<>>)

OutageFields == {K_id, K_systemName, K_impactLevel, K_startTime, K_eta, K_description}
TicketFields == {K_id, K_summary, K_affectedCI, K_status, K_assignedTeam, K_ticketUrl}

\* C16: every canonical outage and ticket is fully populated for any raw
\* record, one with every mapped path absent included: none of the fields but
\* the bridge URL is null, undefined or empty.
C16_FullyPopulated ==
    /\ answer.route \in OutageFeeds =>
          \A i \in 1..Len(Records) : \A k \in OutageFields : Populated(Prop(Records[i], k))
    /\ answer.route = "tickets" =>
          \A i \in 1..Len(Records) : \A k \in TicketFields : Populated(Prop(Records[i], k))

\* a timestamp that is missing or does not parse
Malformed(v) ==
    \/ v.t \in {"null", "undefined"}
    \/ v.t = "string" /\ ParseStamp(v.s) = NullDate

\* the raw records of the upstream's answer, when it is a list of objects
RawRecords(key) ==
    IF upstream.kind = "answered" /\ upstream.ok /\ IsArray(Prop(upstream.data, key))
       /\ \A i \in 1..Len(Prop(upstream.data, key).o) :
             Prop(upstream.data, key).o[i][2].t = "object"
    THEN Items(Prop(upstream.data, key))
    ELSE <<>>

Configured ==
    /\ fconfig.enabled /\ fconfig.instanceUrl # <<>> /\ fenv.servicenow
    /\ ~MappingThrows(fconfig.impactLevelMapping)

\* C17: a malformed or missing timestamp of one raw record never fails a feed:
\* active outages, outage history and monitoring alerts still answer with
\* success and one canonical record per raw record, the date replaced by the
\* current instant.
C17_BadDateNeverFailsFeed ==
    /\ (answer.route \in OutageFeeds /\ Configured /\ RawRecords(K_result) # <<>>) =>
          /\ answer.kind = "ok"
          /\ Len(Records) = Len(RawRecords(K_result))
          /\ \A i \in 1..Len(Records) :
                Malformed(GetPath(RawRecords(K_result)[i], fieldMapping.startTime))
                    => Prop(Records[i], K_startTime) = JStr(toISOString(fnow))
    /\ (/\ answer.route = "alerts" /\ swconfig.enabled /\ fenv.solarwinds
        /\ RawRecords(K_results) # <<>>
        /\ \A i \in 1..Len(RawRecords(K_results)) :
              Populated(Prop(RawRecords(K_results)[i], K_AlertObjectID))) =>
          /\ answer.kind = "ok"
          /\ Len(Records) = Len(RawRecords(K_results))
          /\ \A i \in 1..Len(Records) :
                Malformed(Prop(RawRecords(K_results)[i], K_TriggerTimeStamp))
                    => Prop(Records[i], K_timestamp) = JStr(toISOString(fnow))

\* the raw records of the upstream's answer, a null one included
AnyRecords ==
    IF upstream.kind = "answered" /\ IsArray(Prop(upstream.data, K_result))
    THEN Items(Prop(upstream.data, K_result))
    ELSE <<>>

\* the instant a date field becomes
InstantOf(v) ==
    IF ~Truthy(v) \/ DateOf(v) = NullDate THEN toISOString(fnow)
    ELSE toISOString(DateOf(v))

\* The values a date field of a raw record may hold.
DateInputs ==
    { JUndef, JNull, JStr(<<>>), JStr(<<"s", "o", "o", "n">>), JStr(DateStr(Today - 1, " ", 1)),
      JStr(DateStr(Today + 1, "T", 0)), JNum(0), JNum(At(Today, 0)), JBool(FALSE) }

Empty(v) == v.t \in {"null", "undefined"} \/ v = JStr(<<>>)

\* C18 as stated: date normalization always returns a valid instant: the
\* current instant for a null, undefined or empty input and for an input that
\* does not parse, the parsed instant for every input that parses.
C18_NowOnlyForEmptyOrInvalid ==
    \A v \in DateInputs :
        safeParseDate(v, fnow) =
            IF Empty(v) \/ DateOf(v) = NullDate THEN toISOString(fnow)
            ELSE toISOString(DateOf(v))

\* C18 amended: date normalization always returns a valid instant: the current
\* instant for every falsy input (null, undefined, the empty string, 0, false)
\* and for an input that does not parse, the parsed instant for every other
\* input; the start and end of every outage the feeds answer are such instants.
C18_NowForFalsyOrInvalid ==
    /\ \A v \in DateInputs :
          /\ ParseStamp(safeParseDate(v, fnow)) # NullDate
          /\ safeParseDate(v, fnow) = InstantOf(v)
    /\ answer.route \in OutageFeeds =>
          \A i \in 1..Len(Records) :
              /\ Prop(Records[i], K_startTime) =
                    JStr(InstantOf(GetPath(AnyRecords[i], fieldMapping.startTime)))
              /\ Prop(Records[i], K_eta) =
                    JStr(InstantOf(GetPath(AnyRecords[i], fieldMapping.eta)))

\* C18 happens: the history feed answered a record whose start did not parse
\* and became the current instant, and whose end parsed and was kept.
C18_Witness ==
    /\ answer.route = "history" /\ answer.kind = "ok"
    /\ \E i \in 1..Len(Records) :
          LET raw == RawRecords(K_result)[i] IN
          /\ Prop(raw, K_begin).t = "string"
          /\ ParseStamp(Prop(raw, K_begin).s) = NullDate
          /\ Prop(Records[i], K_startTime) = JStr(toISOString(fnow))
          /\ ParseStamp(Prop(raw, K_end).s) # NullDate
          /\ Prop(Records[i], K_eta) = JStr(toISOString(ParseStamp(Prop(raw, K_end).s)))
          /\ Prop(Records[i], K_eta) # JStr(toISOString(fnow))

\* the paths the handlers resolve
Paths ==
    { fieldMapping.systemName, fieldMapping.impactLevel, fieldMapping.startTime,
      fieldMapping.description, ticketFieldMapping.assignedTeam }

\* what a path resolves to in a record: the value at the end of the walk
RECURSIVE ValueAt(_, _)
ValueAt(v, parts) ==
    IF parts = <<>> THEN v
    ELSE IF HasKey(v, Head(parts)) THEN ValueAt(Prop(v, Head(parts)), Tail(parts))
    ELSE JUndef

\* C19: a path that resolves to an object with a display field yields that
\* field's string, never the object; an object without one yields its name
\* field, else its value field, else the serialization of the object.
C19_DisplayFieldFirst ==
    \A i \in 1..Len(RawRecords(K_result)) : \A path \in Paths :
        LET v == ValueAt(RawRecords(K_result)[i], split(path, ".")) IN
        v.t = "object" =>
            GetPath(RawRecords(K_result)[i], path) =
                IF HasKey(v, K_display_value) THEN Prop(v, K_display_value)
                ELSE IF HasKey(v, K_name) THEN Prop(v, K_name)
                ELSE IF HasKey(v, K_value) THEN Prop(v, K_value)
                ELSE JStr(JSONstringify(v))

\* a segment of the path is absent from the record
RECURSIVE SegmentAbsent(_, _)
SegmentAbsent(v, parts) ==
    /\ parts # <<>>
    /\ \/ ~HasKey(v, Head(parts))
       \/ SegmentAbsent(Prop(v, Head(parts)), Tail(parts))

\* C20: for any record, null included, and any dotted path, resolving yields
\* no value (null) whenever a segment of the path is absent from the record.
C20_AbsentSegmentIsNull ==
    \A i \in 1..Len(AnyRecords) : \A path \in Paths :
        SegmentAbsent(AnyRecords[i], split(path, "."))
            => GetPath(AnyRecords[i], path).t \in {"null", "undefined"}

\* C21: for the active window and any saved config the filter sent upstream is
\* active = true AND an is-empty predicate on the end-time field the config's
\* field mapping names, and it holds no date value.
C21_ActiveFilterOnMappedEnd ==
    (answer.route = "active" /\ fquery # NoQuery) =>
        /\ fquery = <<"a", "c", "t", "i", "v", "e", "=", "t", "r", "u", "e", "^">> \o fieldMapping.eta \o <<"I", "S", "E", "M", "P", "T", "Y">>
        /\ \A i \in 1..Len(fquery) : ~IsDigits(<<fquery[i]>>)

\* the external tokens the configured mapping maps to the trend categories
TrendTokens ==
    { External(Entries[i]).s :
        i \in {j \in 1..Len(Entries) :
                 Prop(Entries[j], K_dashboardValue) \in CanonicalImpacts} }

\* the instant 7 calendar days before now, as the upstream reads it
Cutoff == DateStr(DayOf(fnow) - 7, " ", fnow % SlotsPerDay)

\* C22: for the trailing-7-days window and any saved config the filter sent
\* upstream is an end-time lower bound 7 days before now AND the configured
\* impact field IN exactly the external tokens the configured impact mapping
\* maps to Outage or Degradation.
C22_HistoryFilterOnMappedTokens ==
    (answer.route = "history" /\ fquery # NoQuery) =>
        \E endField \in {<<"e", "n", "d">>, fieldMapping.eta} :
            LET bound == endField \o <<">", "=">> \o Cutoff \o <<"^">>
                            \o fieldMapping.impactLevel \o <<"I", "N", " ">>
            IN /\ Len(fquery) > Len(bound)
               /\ SubSeq(fquery, 1, Len(bound)) = bound
               /\ SeqToSet(split(SubSeq(fquery, Len(bound) + 1, Len(fquery)), ","))
                     = TrendTokens

\* the integration of a feed is disabled or unset, or a credential is absent
Unconfigured(route) ==
    IF route = "alerts"
    THEN ~swconfig.enabled \/ swconfig.apiUrl = <<>> \/ ~fenv.solarwinds
    ELSE ~fconfig.enabled \/ fconfig.instanceUrl = <<>> \/ ~fenv.servicenow

\* C26: when the integration is disabled or unset, or a credential is absent,
\* every read feed (active outages, outage history, tickets, monitoring
\* alerts) answers a successful empty result, not an error.
C26_UnconfiguredIsEmptySuccess ==
    (answer.route # "none" /\ Unconfigured(answer.route)) =>
        answer = Ok(answer.route, JArr(<<>>))

\* the upstream answered a request with a non-success status, or with a
\* payload that holds no list of records
Rejected(route) ==
    /\ fquery # NoQuery
    /\ upstream.kind = "answered"
    /\ \/ ~upstream.ok
       \/ ~IsArray(Prop(upstream.data, IF route = "alerts" THEN K_results ELSE K_result))

\* C27: when the upstream rejects the fetch or answers a payload of unexpected
\* shape, every feed (active outages, outage history, tickets, monitoring
\* alerts) answers an error, never a success.
C27_RejectedIsError ==
    (answer.route # "none" /\ Rejected(answer.route)) => answer.kind \in {"bad", "error"}

-----------------------------------------------------------------------------
(* useAutoRefresh: the hook of HomePage that runs onRefresh on an interval.  *)
(* A render and the effects of its commit are one step.                      *)

MaxMinutes == 2
MaxTimers == 3
MaxCallbacks == 2

\* the values the options take: intervalMinutes 0 is an invalid interval
Minutes == 0..MaxMinutes
Callbacks == 1..MaxCallbacks

\* intervalRef.current = null
NoTimer == 0

NoTick == [fired |-> FALSE, called |-> 0, supplied |-> 0, ms |-> 0, minutes |-> 0,
           stage |-> "unmounted"]

\* the cleanup without clearInterval: the reference is dropped, the timer runs on
clearCurrentSkipped(ts, ref) == ts

\* if (intervalRef.current) { clearInterval(intervalRef.current); ... }
clearCurrent(ts, ref) == IF ref # NoTimer THEN {t \in ts : t.id # ref} ELSE ts

\* const intervalMs = intervalMinutes * 60 * 1000
intervalMs(minutes) == minutes * 60 * 1000

\* The effect on [enabled, intervalMinutes]: the cleanup of its last run, if
\* any, then its body with the options e, m of this render.
RunIntervalEffect(e, m) ==
    LET cleared == clearCurrent(timers, intervalRef) IN
    IF e /\ m > 0
    THEN /\ timers' = cleared \cup {[id |-> nextTimer, ms |-> intervalMs(m)]}
         /\ intervalRef' = nextTimer
         /\ nextTimer' = nextTimer + 1
    ELSE /\ timers' = cleared
         /\ intervalRef' = NoTimer
         /\ UNCHANGED nextTimer

RefreshInit ==
    /\ hstage = "unmounted"
    /\ henabled = FALSE
    /\ intervalMinutes = 0
    /\ onRefresh = 1
    /\ intervalRef = NoTimer
    /\ callbackRef = 1
    /\ timers = {}
    /\ nextTimer = 1
    /\ lastTick = NoTick

\* The first render and commit: useRef(onRefresh), then both effects.
HookMount ==
    /\ hstage = "unmounted"
    /\ \E e \in BOOLEAN, m \in Minutes, cb \in Callbacks :
          /\ henabled' = e /\ intervalMinutes' = m /\ onRefresh' = cb
          /\ callbackRef' = cb
          /\ RunIntervalEffect(e, m)
    /\ hstage' = "mounted"
    /\ UNCHANGED lastTick
    /\ UNCHANGED refreshOthers

\* handleRefreshToggle: a render with enabled flipped
ToggleEnabled ==
    /\ hstage = "mounted" /\ nextTimer <= MaxTimers
    /\ henabled' = ~henabled
    /\ RunIntervalEffect(~henabled, intervalMinutes)
    /\ UNCHANGED <<hstage, intervalMinutes, onRefresh, callbackRef, lastTick>>
    /\ UNCHANGED refreshOthers

\* handleIntervalChange: a render with another intervalMinutes
ChangeInterval ==
    /\ hstage = "mounted" /\ nextTimer <= MaxTimers
    /\ \E m \in Minutes \ {intervalMinutes} :
          /\ intervalMinutes' = m
          /\ RunIntervalEffect(henabled, m)
    /\ UNCHANGED <<hstage, henabled, onRefresh, callbackRef, lastTick>>
    /\ UNCHANGED refreshOthers

\* the saved settings are loaded: a render with both options changed
RestoreSettings ==
    /\ hstage = "mounted" /\ nextTimer <= MaxTimers
    /\ \E m \in Minutes \ {intervalMinutes, 0} :
          /\ intervalMinutes' = m
          /\ henabled' = ~henabled
          /\ RunIntervalEffect(~henabled, m)
    /\ UNCHANGED <<hstage, onRefresh, callbackRef, lastTick>>
    /\ UNCHANGED refreshOthers

\* a render with another onRefresh: the effect on [onRefresh] updates the ref
ChangeCallback ==
    /\ hstage = "mounted"
    /\ \E cb \in Callbacks \ {onRefresh} :
          /\ onRefresh' = cb
          /\ callbackRef' = cb
    /\ UNCHANGED <<hstage, henabled, intervalMinutes, intervalRef, timers, nextTimer, lastTick>>
    /\ UNCHANGED refreshOthers

\* an active timer fires: () => { callbackRef.current(); }
TimerTick ==
    /\ \E t \in timers :
          lastTick' = [fired |-> TRUE, called |-> callbackRef, supplied |-> onRefresh,
                       ms |-> t.ms, minutes |-> intervalMinutes, stage |-> hstage]
    /\ UNCHANGED <<hstage, henabled, intervalMinutes, onRefresh, intervalRef, callbackRef,
                   timers, nextTimer>>
    /\ UNCHANGED refreshOthers

\* unmount: the cleanup of the interval effect
HookUnmount ==
    /\ hstage = "mounted"
    /\ hstage' = "gone"
    /\ timers' = clearCurrent(timers, intervalRef)
    /\ intervalRef' = NoTimer
    /\ UNCHANGED <<henabled, intervalMinutes, onRefresh, callbackRef, nextTimer, lastTick>>
    /\ UNCHANGED refreshOthers

RefreshNext ==
    \/ HookMount
    \/ ToggleEnabled
    \/ ChangeInterval
    \/ RestoreSettings
    \/ ChangeCallback
    \/ TimerTick
    \/ HookUnmount

-----------------------------------------------------------------------------
(* Claims about the auto-refresh hook *)

\* C29: in every state reached by mount, toggles, interval changes, callback
\* changes and unmount at most one interval timer is active; a timer is active
\* only while the hook is mounted, enabled is true and intervalMinutes > 0, its
\* period is the current intervalMinutes, every tick invokes the onRefresh
\* supplied last, and no timer is active after unmount.
C29_OneTimerWhileEnabled ==
    /\ Cardinality(timers) <= 1
    /\ \A t \in timers :
          /\ hstage = "mounted" /\ henabled /\ intervalMinutes > 0
          /\ t.ms = intervalMinutes * 60000
          /\ t.id = intervalRef
    /\ hstage = "gone" => timers = {}
    /\ lastTick.fired =>
          /\ lastTick.called = lastTick.supplied
          /\ lastTick.ms = lastTick.minutes * 60000
          /\ lastTick.stage = "mounted"

\* C29 happens: after timers were replaced (a toggle or an interval change)
\* and the callback was changed, a timer is active and its tick has invoked
\* the new callback.
C29_Witness ==
    /\ hstage = "mounted" /\ timers # {} /\ nextTimer > 2
    /\ lastTick.fired /\ lastTick.called = onRefresh /\ onRefresh # 1
    /\ lastTick.ms = intervalMs(intervalMinutes)

\* C29 happens at unmount: the hook is gone after a timer had been set and
\* had fired.
C29_WitnessUnmount == hstage = "gone" /\ nextTimer > 1 /\ lastTick.fired

-----------------------------------------------------------------------------
(* OutageTrendsPanel.fetchHistory and MonitoringAlertsPanel.fetchAlerts: the *)
(* fetch each panel starts at mount and whenever refreshCounter changes      *)

MaxRefresh == 2

FetchPanels == {"trends", "alerts"}

\* the lists the api answers with
DataLists == { <<>>, <<"r1">>, <<"r1", "r2">> }

\* try { setIsLoading(true); setError(null); await api(...)
StartFetch(p, call) ==
    /\ isLoading' = [isLoading EXCEPT ![p] = TRUE]
    /\ error' = [error EXCEPT ![p] = "null"]
    /\ pending' = [pending EXCEPT ![p] = @ \cup {call}]

FetchInit ==
    /\ refreshCounter = 0
    /\ shown = [p \in FetchPanels |-> FALSE]
    /\ fdata = [p \in FetchPanels |-> <<>>]
    /\ isLoading = [p \in FetchPanels |-> TRUE]
    /\ error = [p \in FetchPanels |-> "null"]
    /\ pending = [p \in FetchPanels |-> {}]

\* the panel mounts: its effect calls the fetch
PanelMounts(p) ==
    /\ ~shown[p]
    /\ shown' = [shown EXCEPT ![p] = TRUE]
    /\ StartFetch(p, refreshCounter)
    /\ UNCHANGED <<refreshCounter, fdata>>
    /\ UNCHANGED fetchOthers

\* refreshCounter changes: the effect of every mounted panel calls its fetch
\* again, whether or not an earlier call still awaits
Refresh ==
    /\ refreshCounter < MaxRefresh
    /\ \E p \in FetchPanels : shown[p]
    /\ refreshCounter' = refreshCounter + 1
    /\ isLoading' = [p \in FetchPanels |-> IF shown[p] THEN TRUE ELSE isLoading[p]]
    /\ error' = [p \in FetchPanels |-> IF shown[p] THEN "null" ELSE error[p]]
    /\ pending' = [p \in FetchPanels |->
                     IF shown[p] THEN pending[p] \cup {refreshCounter + 1} ELSE pending[p]]
    /\ UNCHANGED <<shown, fdata>>
    /\ UNCHANGED fetchOthers

\* the api resolves a call: setHistory(data) / setAlerts(data), then finally
FetchResolves(p, call, list) ==
    /\ call \in pending[p]
    /\ fdata' = [fdata EXCEPT ![p] = list]
    /\ isLoading' = [isLoading EXCEPT ![p] = FALSE]
    /\ pending' = [pending EXCEPT ![p] = @ \ {call}]
    /\ UNCHANGED <<refreshCounter, shown, error>>
    /\ UNCHANGED fetchOthers

\* the api rejects a call: catch, then finally
FetchRejects(p, call) ==
    /\ call \in pending[p]
    /\ error' = [error EXCEPT ![p] = "failed"]
    /\ fdata' = [fdata EXCEPT ![p] = <<>>]
    /\ isLoading' = [isLoading EXCEPT ![p] = FALSE]
    /\ pending' = [pending EXCEPT ![p] = @ \ {call}]
    /\ UNCHANGED <<refreshCounter, shown>>
    /\ UNCHANGED fetchOthers

FetchNext ==
    \/ \E p \in FetchPanels : PanelMounts(p)
    \/ Refresh
    \/ \E p \in FetchPanels, call \in 0..MaxRefresh, list \in DataLists :
          FetchResolves(p, call, list)
    \/ \E p \in FetchPanels, call \in 0..MaxRefresh : FetchRejects(p, call)

-----------------------------------------------------------------------------
(* Claims about the fetch of the panels *)

\* C30: in the outage-trends and the monitoring-alerts panel, under any
\* interleaving of overlapping fetches, whenever no fetch is in flight the
\* loading flag is false and a set error implies an empty data list.
C30_QuiescentConsistent ==
    \A p \in FetchPanels :
        (shown[p] /\ pending[p] = {}) =>
            /\ ~isLoading[p]
            /\ error[p] # "null" => fdata[p] = <<>>

-----------------------------------------------------------------------------
(* Specifications: one per component, the other components idle *)

VendorIdle ==
    /\ vendors = <<>>
    /\ vpc = "idle"
    /\ probes = <<>>
    /\ httpLog = <<>>
    /\ settleOrder = <<>>
    /\ vresponse = [kind |-> "none", data |-> <<>>]

ConfigIdle ==
    /\ stored = Absent
    /\ lastRead = NoRead
    /\ saves = 0
    /\ saved = {}

TrendIdle ==
    /\ serverHistory = <<>>
    /\ history = <<>>
    /\ breakdownType = "impact"
    /\ tnow = At(Today, 0)
    /\ chart = [dayKeys |-> <<>>, chartData |-> <<>>, keys |-> <<>>]

PanelIdle ==
    /\ changesBody = JNull
    /\ outagesBody = JNull
    /\ pnow = At(Today, 0)
    /\ mounted = FALSE
    /\ refreshTick = 0
    /\ items = <<>>
    /\ loading = TRUE
    /\ errorMsg = "null"
    /\ cycles = <<>>
    /\ job = 0
    /\ appliedBy = 0

FeedIdle ==
    /\ fconfig = initialState
    /\ swconfig = [enabled |-> FALSE, apiUrl |-> <<>>]
    /\ fenv = [servicenow |-> FALSE, solarwinds |-> FALSE]
    /\ ffieldMapping = DefaultFieldMapping
    /\ fnow = At(Today, 0)
    /\ fquery = NoQuery
    /\ upstream = NoUpstream
    /\ answer = NoAnswer

RefreshIdle ==
    /\ hstage = "unmounted"
    /\ henabled = FALSE
    /\ intervalMinutes = 0
    /\ onRefresh = 1
    /\ intervalRef = NoTimer
    /\ callbackRef = 1
    /\ timers = {}
    /\ nextTimer = 1
    /\ lastTick = NoTick

FetchIdle ==
    /\ refreshCounter = 0
    /\ shown = [p \in FetchPanels |-> FALSE]
    /\ fdata = [p \in FetchPanels |-> <<>>]
    /\ isLoading = [p \in FetchPanels |-> TRUE]
    /\ error = [p \in FetchPanels |-> "null"]
    /\ pending = [p \in FetchPanels |-> {}]

InitVendor == VendorInit /\ ConfigIdle /\ TrendIdle /\ PanelIdle /\ FeedIdle /\ RefreshIdle
              /\ FetchIdle
SpecVendor == InitVendor /\ [][VendorNext]_vars

InitConfig == ConfigInit /\ VendorIdle /\ TrendIdle /\ PanelIdle /\ FeedIdle /\ RefreshIdle
              /\ FetchIdle
SpecConfig == InitConfig /\ [][ConfigNext]_vars

InitTrend == TrendInit /\ VendorIdle /\ ConfigIdle /\ PanelIdle /\ FeedIdle /\ RefreshIdle
             /\ FetchIdle
SpecTrend == InitTrend /\ [][TrendNext]_vars

InitPanel == PanelInit /\ VendorIdle /\ ConfigIdle /\ TrendIdle /\ FeedIdle /\ RefreshIdle
             /\ FetchIdle
SpecPanel == InitPanel /\ [][PanelNext]_vars

InitFeed == FeedInit /\ VendorIdle /\ ConfigIdle /\ TrendIdle /\ PanelIdle /\ RefreshIdle
            /\ FetchIdle
SpecFeed == InitFeed /\ [][FeedNext]_vars

InitRefresh == RefreshInit /\ VendorIdle /\ ConfigIdle /\ TrendIdle /\ PanelIdle /\ FeedIdle
               /\ FetchIdle
SpecRefresh == InitRefresh /\ [][RefreshNext]_vars

InitFetch == FetchInit /\ VendorIdle /\ ConfigIdle /\ TrendIdle /\ PanelIdle /\ FeedIdle
             /\ RefreshIdle
SpecFetch == InitFetch /\ [][FetchNext]_vars

=============================================================================
